---- MODULE Spec2Model ----
(***************************************************************************)
(* Model of the paginated scraping session of email-search-extractor.      *)
(* One GoogleScraper instance, one worker running search_and_extract, and  *)
(* a controller thread calling pause(), resume() and stop().               *)
(*                                                                         *)
(* The repository holds three renderings of the scraper: the synchronous   *)
(* Playwright one (src/scraper_playwright.py, the one server.py and app.py *)
(* import) and the two sides of the unresolved merge in src/scraper.py     *)
(* (HEAD: asynchronous Playwright; 0c7f6bb: Selenium).  `variant` says     *)
(* which one a run executes.                                               *)
(*                                                                         *)
(* Text is modelled at two levels: what a page hands back (visible text,   *)
(* markup) is a sequence of one-character strings, so that strip() and the *)
(* regular expressions of the markup cleaner are computed character by     *)
(* character; the accumulated text is the string those characters join to. *)
(***************************************************************************)
EXTENDS Naturals, Sequences, FiniteSets, TLC

\* ------------------------------------------------------------------ bounds

\* Largest max_pages a run is started with (the callers allow 1..10).
MaxPages == 3
\* Sleeps of one pause loop that are told apart; further ones change nothing.
MaxSpins == 2
MaxRuns == 2
ReusePages == 1
MaxJobs == 2
NumHandlers == 1
MaxSkips == 1

\* ------------------------------------------------------- program constants

\* len(page_text) > 100: the meaningful-content threshold.
MinContent == 100
\* start_idx = page_num * 10.
ResultsPerPage == 10
\* payload.get("max_pages", 2)
DefaultPages == 2
\* if max_pages < 1 or max_pages > 10
MinPagesAllowed == 1
MaxPagesAllowed == 10
\* if len(job.logs) > 200: job.logs = job.logs[-200:]
LogCap == 200
\* "logs": job.logs[-20:]
StatusLogs == 20

\* ---------------------------------------------------------- text helpers

Digits == <<"0", "1", "2", "3", "4", "5", "6", "7", "8", "9">>

\* str(n) for a non-negative int, as an f-string formats it.
RECURSIVE IntToStr(_)
IntToStr(n) ==
    IF n < 10 THEN Digits[n + 1]
    ELSE IntToStr(n \div 10) \o Digits[(n % 10) + 1]

\* The Python string a sequence of characters stands for.
RECURSIVE Str(_)
Str(cs) == IF cs = <<>> THEN "" ELSE Head(cs) \o Str(Tail(cs))

\* n copies of the character c.
RepC(c, n) == [k \in 1..n |-> c]

\* What \s and str.strip() treat as whitespace (of the characters pages use).
WS == {" ", "\n", "\t"}

RECURSIVE LStrip(_)
LStrip(cs) ==
    IF cs # <<>> /\ Head(cs) \in WS THEN LStrip(Tail(cs)) ELSE cs

RECURSIVE RStrip(_)
RStrip(cs) ==
    IF cs # <<>> /\ cs[Len(cs)] \in WS THEN RStrip(SubSeq(cs, 1, Len(cs) - 1)) ELSE cs

\* str.strip().
Strip(cs) == RStrip(LStrip(cs))

\* Does pat occur in cs at index i ?
MatchAt(cs, i, pat) ==
    /\ i >= 1
    /\ i + Len(pat) - 1 <= Len(cs)
    /\ \A k \in 1..Len(pat) : cs[i + k - 1] = pat[k]

\* Least index >= i where pat occurs in cs, or 0.
FindFrom(cs, i, pat) ==
    LET hits == {j \in i..Len(cs) : MatchAt(cs, j, pat)}
    IN  IF hits = {} THEN 0 ELSE CHOOSE j \in hits : \A h \in hits : j <= h

\* End index of the match of  open[^>]*>.*?close  starting at i, or 0
\* (re.DOTALL: . crosses newlines; .*? stops at the first close).
BlockEnd(cs, i, open, close) ==
    IF ~MatchAt(cs, i, open) THEN 0
    ELSE LET gt == FindFrom(cs, i + Len(open), <<">">>)
         IN  IF gt = 0 THEN 0
             ELSE LET c == FindFrom(cs, gt + 1, close)
                  IN  IF c = 0 THEN 0 ELSE c + Len(close) - 1

\* re.sub(r"open[^>]*>.*?close", "", cs, flags=re.DOTALL), scanning from i.
RECURSIVE DropBlocks(_, _, _, _)
DropBlocks(cs, i, open, close) ==
    IF i > Len(cs) THEN <<>>
    ELSE LET e == BlockEnd(cs, i, open, close)
         IN  IF e # 0 THEN DropBlocks(cs, e + 1, open, close)
             ELSE <<cs[i]>> \o DropBlocks(cs, i + 1, open, close)

\* End index of the match of  <[^>]+>  starting at i, or 0.
TagEnd(cs, i) ==
    IF cs[i] # "<" THEN 0
    ELSE LET gt == FindFrom(cs, i + 1, <<">">>)
         IN  IF gt >= i + 2 THEN gt ELSE 0

\* re.sub(r"<[^>]+>", " ", cs), scanning from i.
RECURSIVE StripTags(_, _)
StripTags(cs, i) ==
    IF i > Len(cs) THEN <<>>
    ELSE LET e == TagEnd(cs, i)
         IN  IF e # 0 THEN <<" ">> \o StripTags(cs, e + 1)
             ELSE <<cs[i]>> \o StripTags(cs, i + 1)

\* re.sub(r"\s+", " ", cs).
RECURSIVE CollapseWS(_)
CollapseWS(cs) ==
    IF cs = <<>> THEN <<>>
    ELSE IF Head(cs) \in WS
         THEN <<" ">> \o CollapseWS(LStrip(cs))
         ELSE <<Head(cs)>> \o CollapseWS(Tail(cs))

\* The named character references the pages use, and what each decodes to.
Entities ==
    { <<(<<"&", "a", "m", "p", ";">>), "&">>,
      <<(<<"&", "l", "t", ";">>), "<">>,
      <<(<<"&", "g", "t", ";">>), ">">> }

\* html.unescape(), scanning from i: a decoded character is not decoded again.
RECURSIVE Unescape(_, _)
Unescape(cs, i) ==
    IF i > Len(cs) THEN <<>>
    ELSE LET hit == {e \in Entities : MatchAt(cs, i, e[1])}
         IN  IF hit # {}
             THEN LET e == CHOOSE x \in hit : TRUE
                  IN  <<e[2]>> \o Unescape(cs, i + Len(e[1]))
             ELSE <<cs[i]>> \o Unescape(cs, i + 1)

ScriptOpen == <<"<", "s", "c", "r", "i", "p", "t">>
ScriptClose == <<"<", "/", "s", "c", "r", "i", "p", "t", ">">>
StyleOpen == <<"<", "s", "t", "y", "l", "e">>
StyleClose == <<"<", "/", "s", "t", "y", "l", "e", ">">>

\* _clean_html_text: scripts, styles, tags, whitespace, entities, in this order.
CleanHtml(html) ==
    LET a == DropBlocks(html, 1, ScriptOpen, ScriptClose)
        b == DropBlocks(a, 1, StyleOpen, StyleClose)
        c == StripTags(b, 1)
        d == Strip(CollapseWS(c))
    IN  Unescape(d, 1)

\* ------------------------------------------------------------- the pages

\* What the browser may hand back for a page: the visible text of the body
\* and the markup, each of which may also fail to be read.
\*   long   visible text of 101 characters once stripped
\*   edge   visible text of exactly 100 characters once stripped (102 as
\*          read); markup with content
\*   blank  visible text of whitespace only; markup that cleans to nothing
\*   novis  reading the visible text raises; markup with content
\*   dead   visible text too short and reading the markup raises
PageKinds == {"long", "edge", "blank", "novis", "dead"}

\* Markup of page i that cleans to "a&b i".
Markup(i) ==
    <<"<", "p", ">", "a", "&", "a", "m", "p", ";", "b", " ", "\n", Digits[i + 1],
      "<", "/", "p", ">",
      "<", "s", "c", "r", "i", "p", "t", " ", "a", ">", "x", "<", "b", ">",
      "<", "/", "s", "c", "r", "i", "p", "t", ">">>

\* Markup that cleans to the empty string.
EmptyMarkup ==
    <<"<", "s", "t", "y", "l", "e", ">", "x", "<", "/", "s", "t", "y", "l", "e", ">",
      "<", "b", "r", ">">>

\* document.body.innerText / body.text of page i, before strip().
VisibleText(kind, i) ==
    CASE kind = "long"  -> <<" ", "p", Digits[i + 1]>> \o RepC("x", MinContent - 1) \o <<"\n">>
      [] kind = "edge"  -> <<" ", "p", Digits[i + 1]>> \o RepC("x", MinContent - 2) \o <<"\n">>
      [] kind = "blank" -> <<" ", "\n">>
      [] kind = "dead"  -> <<"p", Digits[i + 1]>>
      [] OTHER          -> <<>>

VisibleRaises(kind) == kind = "novis"

\* page.content() / driver.page_source of page i.
PageSource(kind, i) == IF kind = "blank" THEN EmptyMarkup ELSE Markup(i)

SourceRaises(kind) == kind = "dead"

\* ------------------------------------------------------------------ state

Variants == {"sync", "async", "selenium"}

\* How a run is called: the keywords, and whether a progress callback is passed.
Calls == { [keywords |-> "foo bar", has_callback |-> TRUE],
           [keywords |-> "a&b=c x", has_callback |-> FALSE] }

VARIABLES
    variant,       \* which rendering of GoogleScraper runs
    keywords,      \* search_and_extract argument
    max_pages,     \* search_and_extract argument
    has_callback,  \* progress_callback is not None
    pause_flag,    \* self.pause_flag
    stop_flag,     \* self.stop_flag
    handles,       \* self._playwright, self._browser / self.browser / self.driver, self.page
    pc,            \* where the worker is
    page_num,      \* the loop variable
    all_text,      \* the accumulator
    ready,         \* readiness probes tried for the page at hand and how it got ready
    page_kind,     \* what the page just extracted from was like
    exc,           \* the exception in flight: "none", "setup" or "page"
    result,        \* what the call gave its caller
    nav_log,       \* URLs requested so far
    progress_log,  \* (current, total) pairs handed to the callback so far
    page_log,      \* per page index, how far its iteration got and what it added to all_text
    delay_log,     \* the page indices after which the inter-page delay was taken
    close_calls,   \* times the close routine ran
    stop_at,       \* where the worker was when stop() first set the flag
    spins,         \* sleeps the worker has taken in the pause loop it is in
    runs,          \* runs this instance had finished when the present one was called
    stale,         \* handles a close routine was called on when they were closed already
    helper,        \* the latest call of an interactive helper: the page handle it met, what it gave
    jobs,          \* server: _jobs, job id -> JobState
    lock,          \* server: the thread holding _jobs_lock
    threads,       \* server: per job, where its worker thread is in _run_job, and its locals
    handlers,      \* server: per request thread, the request being served and the last response
    sessions,      \* server: per GoogleScraper instance built, the worker threads that used it
    payload        \* server: the payload of the one start request SpecStart follows

vars == <<variant, keywords, max_pages, has_callback, pause_flag, stop_flag, handles,
          pc, page_num, all_text, ready, page_kind, exc, result, nav_log, progress_log,
          page_log, delay_log, close_calls, stop_at, spins, runs, stale, helper,
          jobs, lock, threads, handlers, sessions, payload>>

config == <<variant, keywords, max_pages, has_callback>>
flags == <<pause_flag, stop_flag, stop_at>>
logs == <<nav_log, progress_log, page_log, delay_log>>
local == <<ready, page_kind>>
reuse == <<runs, stale, helper>>
server == <<jobs, lock, threads, handlers, sessions, payload>>
scraper == <<variant, keywords, max_pages, has_callback, pause_flag, stop_flag, handles,
             pc, page_num, all_text, ready, page_kind, exc, result, nav_log, progress_log,
             page_log, delay_log, close_calls, stop_at, spins, runs, stale, helper>>

NoHandles == [playwright |-> "null", browser |-> "null", page |-> "null"]
NoReady == [via |-> "-", probes |-> <<>>, settled |-> FALSE]
NoStop == [page |-> 0, phase |-> "never"]

\* The part of the run a position of the worker belongs to: before the loop,
\* at the stop check, at the pause loop, inside the processing of a page
\* (navigation to inter-page delay), or after the loop.
Phase(p) ==
    CASE p \in {"idle", "setup"} -> "before"
      [] p = "loop_top" -> "top"
      [] p = "pause_check" -> "pause"
      [] p \in {"navigate", "render", "readiness", "extract", "callback", "delay"} -> "page"
      [] OTHER -> "after"
NoPage == [st |-> "none", add |-> ""]
NoResult == [kind |-> "none", text |-> ""]
NoHelper == [page |-> "-", gave |-> "-"]

\* ------------------------------------------------------ the server's state

JobIds == 1..MaxJobs
HandlerIds == 1..NumHandlers

\* Who holds _jobs_lock.
NoHolder == [kind |-> "none", id |-> 0]
WorkerThread(j) == [kind |-> "worker", id |-> j]

\* job.error = None
NoError == "None"

\* An id _jobs has no entry for.
NoJob == [status |-> "absent", progress |-> 0, logs |-> <<>>, keywords |-> "",
          max_pages |-> 0, exclude_free_emails |-> FALSE, scraped_text |-> <<>>,
          emails_found |-> <<>>, error |-> NoError]

\* JobState(status="idle", progress=0, keywords=..., max_pages=..., ...): the
\* other fields take the defaults of the dataclass.  (headless_mode is handed
\* on to the browser launch and to one log line only; it is left out.)
NewJob(kw, n, x) ==
    [status |-> "idle", progress |-> 0, logs |-> <<>>, keywords |-> kw,
     max_pages |-> n, exclude_free_emails |-> x, scraped_text |-> <<>>,
     emails_found |-> <<>>, error |-> NoError]

\* A worker thread that was not started: its position in _run_job and its
\* locals (keywords, max_pages, exclude_free_emails, scraped_text, emails /
\* sorted_emails, the exception caught), the pages the scraper is through
\* with, and the GoogleScraper instance scrape_google built for it.
NoThread == [pc |-> "none", keywords |-> "", max_pages |-> 0, exclude_free_emails |-> FALSE,
             scraped_text |-> <<>>, emails |-> <<>>, exc |-> NoError, page |-> 0, scraper |-> 0]

\* What a request was answered with: the HTTP status, of a refusal the detail,
\* and what the body holds: "job_id" (start), a job's fields (status: "whole"
\* if they are a job as it stands between two of the worker's updates, "torn"
\* if not), "file" (a download).
NoResponse == [code |-> 0, detail |-> "", body |-> "none"]

\* A request thread with no request at hand.
IdleHandler == [pc |-> "idle", job_id |-> 0, job |-> NoJob, resp |-> NoResponse]

\* The values a field of the JSON payload of /api/start may hold: left out,
\* null, an integer, a number with a fraction (in tenths), a string.
Absent == [t |-> "absent", n |-> 0, s |-> <<>>]
JNull == [t |-> "null", n |-> 0, s |-> <<>>]
JInt(n) == [t |-> "int", n |-> n, s |-> <<>>]
JBool(b) == [t |-> "bool", n |-> IF b THEN 1 ELSE 0, s |-> <<>>]
JTenths(n) == [t |-> "float", n |-> n, s |-> <<>>]
JStr(cs) == [t |-> "str", n |-> 0, s |-> cs]

\* A payload with nothing in it.
NoPayload == [keywords |-> Absent, max_pages |-> Absent, exclude_free_emails |-> Absent]

\* The server as the module is loaded: no jobs, the lock free.
InitServerState ==
    /\ jobs = [j \in JobIds |-> NoJob]
    /\ lock = NoHolder
    /\ threads = [j \in JobIds |-> NoThread]
    /\ handlers = [h \in HandlerIds |-> IdleHandler]
    /\ sessions = <<>>

\* __init__ : flags cleared, no handles; the run has not been called yet.
Init ==
    /\ variant \in Variants
    /\ \E c \in Calls : keywords = c.keywords /\ has_callback = c.has_callback
    /\ max_pages \in 1..MaxPages
    /\ pause_flag = FALSE
    /\ stop_flag = FALSE
    /\ handles = NoHandles
    /\ pc = "idle"
    /\ page_num = 0
    /\ all_text = ""
    /\ ready = NoReady
    /\ page_kind = "-"
    /\ exc = "none"
    /\ result = NoResult
    /\ nav_log = <<>>
    /\ progress_log = <<>>
    /\ page_log = [i \in 0..(MaxPages - 1) |-> NoPage]
    /\ delay_log = <<>>
    /\ close_calls = 0
    /\ stop_at = NoStop
    /\ spins = 0
    /\ runs = 0
    /\ stale = {}
    /\ helper = NoHelper
    /\ InitServerState
    /\ payload = NoPayload

\* ------------------------------------------------------------ controller

\* pause(): self.pause_flag = True.
Pause ==
    /\ pc # "done"
    /\ pause_flag' = TRUE
    /\ UNCHANGED <<stop_flag, stop_at>>
    /\ UNCHANGED <<server, config, reuse, handles, pc, page_num, all_text, local, exc, result, logs,
                   close_calls, spins>>

\* resume(): self.pause_flag = False.
Resume ==
    /\ pc # "done"
    /\ pause_flag' = FALSE
    /\ UNCHANGED <<stop_flag, stop_at>>
    /\ UNCHANGED <<server, config, reuse, handles, pc, page_num, all_text, local, exc, result, logs,
                   close_calls, spins>>

\* A stop() that also clears the pause flag.
Stop_AlsoResumes ==
    /\ pc # "done"
    /\ stop_flag' = TRUE
    /\ stop_at' = IF stop_flag THEN stop_at ELSE [page |-> page_num, phase |-> Phase(pc)]
    /\ pause_flag' = FALSE
    /\ UNCHANGED <<server, config, reuse, handles, pc, page_num, all_text, local, exc, result, logs,
                   close_calls, spins>>

\* stop(): self.stop_flag = True.
Stop ==
    /\ pc # "done"
    /\ stop_flag' = TRUE
    /\ stop_at' = IF stop_flag THEN stop_at ELSE [page |-> page_num, phase |-> Phase(pc)]
    /\ UNCHANGED pause_flag
    /\ UNCHANGED <<server, config, reuse, handles, pc, page_num, all_text, local, exc, result, logs,
                   close_calls, spins>>

\* ----------------------------------------------------- session controller

\* How _setup / setup_browser / setup_driver may end: "ok", or the step that raised.
\*   start   starting the Playwright driver
\*   launch  launching the browser (chromium.launch, webdriver.Chrome)
\*   page    new_context / new_page
\*   script  add_init_script, set_window_size / execute_script
SetupOutcomes(v) ==
    CASE v = "sync"     -> {"ok", "start", "launch", "page"}
      [] v = "async"    -> {"ok", "start", "launch", "page", "script"}
      [] v = "selenium" -> {"ok", "launch", "script"}

\* The handles setup leaves when it ends with outcome o: the Playwright
\* driver, the browser (Selenium: the driver, its single handle) and the page.
\* The synchronous rendering keeps the Playwright driver in self._playwright,
\* the asynchronous one in a local variable of setup_browser.
HandlesAfterSetup(v, o) ==
    [playwright |-> IF v # "selenium" /\ o # "start" THEN "open" ELSE "null",
     browser    |-> CASE v = "selenium" -> IF o = "launch" THEN "null" ELSE "open"
                      [] OTHER -> IF o \in {"start", "launch"} THEN "null" ELSE "open",
     page       |-> CASE v = "selenium" -> "null"
                      [] OTHER -> IF o \in {"ok", "script"} THEN "open" ELSE "null"]

\* The attributes of the instance once setup has run: those it assigned hold
\* the new handles, those it did not get to hold what they held before.
Assigned(h, new) == [x \in DOMAIN h |-> IF new[x] = "null" THEN h[x] ELSE new[x]]

\* A close routine that reaches the browser only through the page branch.
HandlesAfterClose_PageFirst(v, h) ==
    [playwright |-> IF v = "sync" /\ h.playwright # "null" THEN "closed" ELSE h.playwright,
     browser    |-> IF h.browser # "null" /\ (v = "selenium" \/ h.page # "null")
                    THEN "closed" ELSE h.browser,
     page       |-> IF v # "selenium" /\ h.page # "null" THEN "closed" ELSE h.page]

\* _close / close_browser / close_driver: every handle the instance holds
\* (is not None) is closed; the attributes are not reset.  Only _close stops
\* the Playwright driver.
HandlesAfterClose(v, h) ==
    [playwright |-> IF v = "sync" /\ h.playwright # "null" THEN "closed" ELSE h.playwright,
     browser    |-> IF h.browser # "null" THEN "closed" ELSE h.browser,
     page       |-> IF v # "selenium" /\ h.page # "null" THEN "closed" ELSE h.page]

\* The handles the close routine calls close / stop / quit on although they
\* were closed before: the attributes are tested for None only.
StaleHandles(v, h) ==
    {x \in DOMAIN h : h[x] = "closed" /\ HandlesAfterClose(v, [h EXCEPT ![x] = "open"])[x] = "closed"}

\* ------------------------------------------------------- pagination driver

\* f"{self.base_url}?q={keywords}&start={start_idx}"
BaseUrl == "https://www.google.com/search"

\* A start offset counted from the 1-based page number.
Url_OneBased(kw, i) == BaseUrl \o "?q=" \o kw \o "&start=" \o IntToStr((i + 1) * ResultsPerPage)

Url(kw, i) == BaseUrl \o "?q=" \o kw \o "&start=" \o IntToStr(i * ResultsPerPage)

\* A loop that never looks at the stop flag.
StopRequested_Never(flag) == FALSE

\* if self.stop_flag: break
StopRequested(flag) == flag

\* A loop that never waits on the pause flag.
Paused_Never(flag) == FALSE

\* while self.pause_flag: sleep
Paused(flag) == flag

\* A callback handed the 0-based loop index.
ProgressArgs_ZeroBased(i, n) == <<i, n>>

\* progress_callback(page_num + 1, max_pages)
ProgressArgs(i, n) == <<i + 1, n>>

\* A callback invoked twice for a page.
Deliver_Twice(log, i, n) == Append(Append(log, ProgressArgs(i, n)), ProgressArgs(i, n))

\* The log of delivered progress events once the callback ran for index i.
Deliver(log, i, n) == Append(log, ProgressArgs(i, n))

\* Is an exception raised while a page is processed caught inside the loop ?
\* src/scraper.py wraps the loop body in try / except Exception / continue;
\* src/scraper_playwright.py catches only the timeout of page.goto.
CatchesPageErrors(v) == v # "sync"

\* A threshold that lets a text of exactly the minimum length pass.
Meaningful_AtLeast(page_text) == page_text # <<>> /\ Len(page_text) >= MinContent

\* if page_text and len(page_text) > 100
Meaningful(page_text) == page_text # <<>> /\ Len(page_text) > MinContent

\* The body of the extraction block for a page of the given kind:
\* raised says an exception leaves the block, add is what all_text gains.
ExtractBlock(v, kind, i) ==
    LET page_text == Strip(VisibleText(kind, i))
        text == CleanHtml(PageSource(kind, i))
    IN  IF v = "sync"
        THEN IF VisibleRaises(kind) THEN [raised |-> TRUE, add |-> ""]
             ELSE IF Meaningful(page_text)
                  THEN [raised |-> FALSE, add |-> Str(page_text) \o "\n"]
                  ELSE IF SourceRaises(kind) THEN [raised |-> TRUE, add |-> ""]
                       ELSE [raised |-> FALSE, add |-> Str(text) \o "\n"]
        ELSE IF ~VisibleRaises(kind) /\ Meaningful(page_text)
             THEN [raised |-> FALSE, add |-> Str(page_text) \o "\n"]
             ELSE IF SourceRaises(kind) THEN [raised |-> FALSE, add |-> ""]
                  ELSE IF text # <<>>
                       THEN [raised |-> FALSE, add |-> Str(text) \o "\n"]
                       ELSE [raised |-> FALSE, add |-> ""]

\* The extraction block, worked out once for every implementation, kind of
\* page and page index.
ExtractBlocks ==
    [v \in Variants, kind \in PageKinds, i \in 0..(MaxPages - 1) |-> ExtractBlock(v, kind, i)]

\* The probes the cascade of src/scraper.py runs when probe number k is the
\* first to succeed (k = 4: none does).
ProbeOrder == <<"container", "result", "body">>

ProbesTried(k) == SubSeq(ProbeOrder, 1, IF k > 3 THEN 3 ELSE k)

\* A `continue` that leaves the loop instead of going on.
NextIndex_Abort ==
    /\ page_num' = page_num
    /\ pc' = "close"
    /\ ready' = NoReady
    /\ page_kind' = "-"
    /\ UNCHANGED <<exc, spins>>

\* `continue`, or the end of the loop body: on to the next index.
NextIndex ==
    /\ page_num' = page_num + 1
    /\ pc' = "loop_top"
    /\ ready' = NoReady
    /\ page_kind' = "-"
    /\ UNCHANGED <<exc, spins>>

\* An exception leaves the loop, towards except / finally.
Escape ==
    /\ exc' = "page"
    /\ pc' = "close"
    /\ ready' = NoReady
    /\ UNCHANGED <<page_num, spins>>

\* An exception raised while page page_num is processed.
PageFailure == IF CatchesPageErrors(variant) THEN NextIndex ELSE Escape /\ page_kind' = "-"

Mark(st, add) == page_log' = [page_log EXCEPT ![page_num] = [st |-> st, add |-> add]]

\* search_and_extract is called.
Start ==
    /\ pc = "idle"
    /\ pc' = "setup"
    /\ UNCHANGED <<server, config, reuse, flags, handles, page_num, all_text, local, exc, result,
                   logs, close_calls, spins>>

\* A run that enters the loop whatever setup did.
AfterSetup_Ignore(o) == "loop_top"

\* Where control goes when setup ends with outcome o: into the loop, or, with
\* the exception, to the finally clause.
AfterSetup(o) == IF o = "ok" THEN "loop_top" ELSE "close"

\* self._setup() ; all_text = "".
Setup ==
    /\ pc = "setup"
    /\ \E o \in SetupOutcomes(variant) :
          /\ handles' = Assigned(handles, HandlesAfterSetup(variant, o))
          /\ pc' = AfterSetup(o)
          /\ exc' = IF o = "ok" THEN exc ELSE "setup"
    /\ all_text' = ""
    /\ page_num' = 0
    /\ UNCHANGED <<server, config, reuse, flags, local, result, logs, close_calls, spins>>

\* for page_num in range(max_pages): if self.stop_flag: break
LoopTop ==
    /\ pc = "loop_top"
    /\ pc' = IF page_num >= max_pages \/ StopRequested(stop_flag) THEN "close" ELSE "pause_check"
    /\ UNCHANGED <<server, config, reuse, flags, handles, page_num, all_text, local, exc, result,
                   logs, close_calls, spins>>

\* A pause loop that, once it has slept, never reads the flag again.
PauseCheck_Sticky ==
    /\ pc = "pause_check"
    /\ IF Paused(pause_flag) \/ spins > 0
       THEN spins' = (IF spins < MaxSpins THEN spins + 1 ELSE spins) /\ pc' = pc
       ELSE spins' = 0 /\ pc' = "navigate"
    /\ UNCHANGED <<server, config, reuse, flags, handles, page_num, all_text, local, exc, result,
                   logs, close_calls>>

\* A pause loop that also polls the stop flag and breaks out on it.
PauseCheck_PollsStop ==
    /\ pc = "pause_check"
    /\ IF stop_flag
       THEN spins' = 0 /\ pc' = "close"
       ELSE IF Paused(pause_flag)
            THEN spins' = (IF spins < MaxSpins THEN spins + 1 ELSE spins) /\ pc' = pc
            ELSE spins' = 0 /\ pc' = "navigate"
    /\ UNCHANGED <<server, config, reuse, flags, handles, page_num, all_text, local, exc, result,
                   logs, close_calls>>

\* while self.pause_flag: time.sleep(0.5)
PauseCheck ==
    /\ pc = "pause_check"
    /\ IF Paused(pause_flag)
       THEN spins' = (IF spins < MaxSpins THEN spins + 1 ELSE spins) /\ pc' = pc
       ELSE spins' = 0 /\ pc' = "navigate"
    /\ UNCHANGED <<server, config, reuse, flags, handles, page_num, all_text, local, exc, result,
                   logs, close_calls>>

\* self.page.goto(url) / self.driver.get(search_url)
Navigate ==
    /\ pc = "navigate"
    /\ nav_log' = Append(nav_log, Url(keywords, page_num))
    /\ \E o \in {"ok", "timeout", "error"} :
          CASE o = "ok" ->
                 /\ pc' = "render"
                 /\ UNCHANGED <<page_log, page_num, local, exc, spins>>
            [] o = "timeout" ->
                 /\ Mark("nav_timeout", "")
                 /\ NextIndex
            [] o = "error" ->
                 /\ Mark("nav_error", "")
                 /\ PageFailure
    /\ UNCHANGED <<server, config, reuse, flags, handles, all_text, result, progress_log, delay_log,
                   close_calls>>

\* The fixed wait for the page to render.
Render ==
    /\ pc = "render"
    /\ pc' = "readiness"
    /\ UNCHANGED <<server, config, reuse, flags, handles, page_num, all_text, local, exc, result,
                   logs, close_calls, spins>>

\* The readiness probes: one in src/scraper_playwright.py, whose timeout is
\* caught and whose other errors are not; a cascade of three in src/scraper.py,
\* each inside try / except Exception.
Readiness ==
    /\ pc = "readiness"
    /\ IF variant = "sync"
       THEN \E o \in {"found", "timeout", "error"} :
               IF o = "error"
               THEN Mark("ready_error", "") /\ Escape /\ page_kind' = page_kind
               ELSE /\ ready' = [via |-> IF o = "found" THEN "container" ELSE "none",
                                 probes |-> <<"container">>, settled |-> FALSE]
                    /\ pc' = "extract"
                    /\ UNCHANGED <<page_log, page_num, page_kind, exc, spins>>
       ELSE \E k \in 1..4 :
               /\ ready' = [via |-> IF k > 3 THEN "none" ELSE ProbeOrder[k],
                            probes |-> ProbesTried(k), settled |-> (k = 3)]
               /\ pc' = "extract"
               /\ UNCHANGED <<page_log, page_num, page_kind, exc, spins>>
    /\ UNCHANGED <<server, config, reuse, flags, handles, all_text, result, nav_log, progress_log,
                   delay_log, close_calls>>

\* A loop body that goes from the extraction straight to the delay.
AfterExtract_NoCallback == "delay"

\* What follows the extraction block: `if progress_callback:`.
AfterExtract == "callback"

\* An extraction that keeps the last page's block only (all_text = ...).
Accumulate_Replace(text, add) == add

\* all_text += text + "\n"
Accumulate(text, add) == text \o add

\* Visible text, else cleaned markup, appended to all_text.
Extract ==
    /\ pc = "extract"
    /\ \E kind \in PageKinds :
          LET r == ExtractBlocks[variant, kind, page_num]
          IN  /\ page_kind' = kind
              /\ IF r.raised
                 THEN /\ Mark("extract_error", "")
                      /\ Escape
                      /\ all_text' = all_text
                 ELSE /\ Mark("extracted", r.add)
                      /\ all_text' = Accumulate(all_text, r.add)
                      /\ pc' = AfterExtract
                      /\ ready' = NoReady
                      /\ UNCHANGED <<page_num, exc, spins>>
    /\ UNCHANGED <<server, config, reuse, flags, handles, result, nav_log, progress_log, delay_log,
                   close_calls>>

\* if progress_callback: progress_callback(page_num + 1, max_pages)
Callback ==
    /\ pc = "callback"
    /\ IF has_callback
       THEN /\ progress_log' = Deliver(progress_log, page_num, max_pages)
            /\ \E o \in {"ok", "raises"} :
                  IF o = "ok"
                  THEN /\ Mark("completed", page_log[page_num].add)
                       /\ pc' = "delay"
                       /\ page_kind' = "-"
                       /\ UNCHANGED <<page_num, ready, exc, spins>>
                  ELSE /\ Mark("cb_error", page_log[page_num].add)
                       /\ PageFailure
       ELSE /\ progress_log' = progress_log
            /\ Mark("completed", page_log[page_num].add)
            /\ pc' = "delay"
            /\ page_kind' = "-"
            /\ UNCHANGED <<page_num, ready, exc, spins>>
    /\ UNCHANGED <<server, config, reuse, flags, handles, all_text, result, nav_log, delay_log,
                   close_calls>>

\* A loop that waits after its last page too.
Delayed_Always(i, n) == TRUE

\* if page_num < max_pages - 1
Delayed(i, n) == i < n - 1

\* if page_num < max_pages - 1: wait 3 seconds.  Then the next index.
Delay ==
    /\ pc = "delay"
    /\ delay_log' = IF Delayed(page_num, max_pages) THEN Append(delay_log, page_num) ELSE delay_log
    /\ NextIndex
    /\ UNCHANGED <<server, config, reuse, flags, handles, all_text, result, nav_log, progress_log,
                   page_log, close_calls>>

\* finally: self._close()
Close ==
    /\ pc = "close"
    /\ close_calls' = close_calls + 1
    /\ handles' = HandlesAfterClose(variant, handles)
    /\ stale' = stale \cup StaleHandles(variant, handles)
    /\ pc' = "exit"
    /\ UNCHANGED <<server, config, runs, helper, flags, page_num, all_text, local, exc, result, logs, spins>>

\* Control goes back to the caller: return all_text, or the exception in flight.
Exit ==
    /\ pc = "exit"
    /\ result' = IF exc = "none"
                 THEN [kind |-> "returned", text |-> all_text]
                 ELSE [kind |-> "raised", text |-> ""]
    /\ pc' = "done"
    /\ UNCHANGED <<server, config, reuse, flags, handles, page_num, all_text, local, exc, logs,
                   close_calls, spins>>

Worker ==
    \/ Start
    \/ Setup
    \/ LoopTop
    \/ PauseCheck
    \/ Navigate
    \/ Render
    \/ Readiness
    \/ Extract
    \/ Callback
    \/ Delay
    \/ Close
    \/ Exit

Controller ==
    \/ Pause
    \/ Resume
    \/ Stop

Next == Worker \/ Controller

Spec == Init /\ [][Next]_vars

\* A run made through scrape_google: the scraper is a local of the call, so
\* no other thread has it to call pause, resume or stop on.
SpecGoogle == Init /\ [][Worker]_vars

\* The run with a worker thread that keeps running: a step the worker can
\* take is eventually taken, and the poll of the pause loop, repeated every
\* half second, eventually reads a flag that is cleared again and again.
Fairness == WF_vars(Worker) /\ SF_vars(PauseCheck)

SpecLive == Init /\ [][Next]_vars /\ Fairness

\* ------------------------------------------------- an instance used again

\* The attribute the helpers test: self.page, or self.driver under Selenium.
HelperHandle(v, h) == IF v = "selenium" THEN h.browser ELSE h.page

\* What a helper can give when the attribute holds x: the attribute is tested
\* for None only, so on a closed page the key press is still sent, and the
\* helper returns True unless the browser library raises.
HelperGives(x) ==
    CASE x = "null" -> {"false"}
      [] x = "open" -> {"true"}
      [] OTHER      -> {"true", "raised"}

\* scroll_down(), scroll_up(), select_all_text(), copy_selected_text(), ... :
\* called by the owner of the instance, at any time.
Helper ==
    /\ \E o \in HelperGives(HelperHandle(variant, handles)) :
          helper' = [page |-> HelperHandle(variant, handles), gave |-> o]
    /\ UNCHANGED <<server, config, flags, handles, pc, page_num, all_text, local, exc, result,
                   logs, close_calls, spins, runs, stale>>

\* The close routine called once more by the owner of the instance, when no
\* run is under way.
CloseAgain ==
    /\ pc \in {"idle", "done"}
    /\ handles' = HandlesAfterClose(variant, handles)
    /\ stale' = stale \cup StaleHandles(variant, handles)
    /\ UNCHANGED <<server, config, flags, pc, page_num, all_text, local, exc, result, logs,
                   close_calls, spins, runs, helper>>

\* search_and_extract is called again on an instance whose run is over: the
\* locals start afresh, the attributes (flags, handles) are what the earlier
\* run left.
Restart ==
    /\ pc = "done"
    /\ runs + 1 < MaxRuns
    /\ runs' = runs + 1
    /\ pc' = "setup"
    /\ page_num' = 0
    /\ all_text' = ""
    /\ ready' = NoReady
    /\ page_kind' = "-"
    /\ exc' = "none"
    /\ result' = NoResult
    /\ nav_log' = <<>>
    /\ progress_log' = <<>>
    /\ page_log' = [i \in 0..(MaxPages - 1) |-> NoPage]
    /\ delay_log' = <<>>
    /\ close_calls' = 0
    /\ spins' = 0
    /\ stop_at' = IF stop_flag THEN [page |-> 0, phase |-> "before"] ELSE NoStop
    /\ helper' = NoHelper
    /\ UNCHANGED <<server, config, pause_flag, stop_flag, handles, stale>>

Owner ==
    \/ Helper
    \/ CloseAgain
    \/ Restart

NextReuse == Worker \/ Controller \/ Owner

\* A fresh instance whose runs are asked for at most ReusePages pages.
InitReuse == Init /\ max_pages <= ReusePages

SpecReuse == InitReuse /\ [][NextReuse]_vars

\* ------------------------------------------------------------ the server

\* payload.get(key, default)
Get(x, default) == IF x.t = "absent" THEN default ELSE x

\* str(x) of a string or of None.
PyStr(x) == IF x.t = "null" THEN <<"N", "o", "n", "e">> ELSE x.s

\* The value of a string of decimal digits.
RECURSIVE DigitsValue(_)
DigitsValue(cs) ==
    IF cs = <<>> THEN 0
    ELSE 10 * DigitsValue(SubSeq(cs, 1, Len(cs) - 1))
           + (CHOOSE d \in 0..9 : Digits[d + 1] = cs[Len(cs)])

\* int(x): an int (or bool) as it is, a float cut towards zero, a string of digits with
\* an optional sign and surrounding whitespace parsed; anything else raises
\* (ValueError, TypeError).
PyInt(x) ==
    CASE x.t \in {"int", "bool"} -> [ok |-> TRUE, v |-> x.n]
      [] x.t = "float" ->
            [ok |-> TRUE, v |-> IF x.n >= 0 THEN x.n \div 10 ELSE 0 - ((0 - x.n) \div 10)]
      [] x.t = "str" ->
            LET a == Strip(x.s)
                signed == a # <<>> /\ a[1] \in {"+", "-"}
                ds == IF signed THEN Tail(a) ELSE a
            IN  IF ds # <<>> /\ \A k \in 1..Len(ds) : \E d \in 1..10 : Digits[d] = ds[k]
                THEN [ok |-> TRUE,
                      v |-> IF signed /\ a[1] = "-" THEN 0 - DigitsValue(ds) ELSE DigitsValue(ds)]
                ELSE [ok |-> FALSE, v |-> 0]
      [] OTHER -> [ok |-> FALSE, v |-> 0]

\* bool(payload.get(key, False)) of a flag that is left out, a bool or an int.
PyBool(x) == x.t \in {"int", "bool"} /\ x.n # 0

\* A start that accepts any number of pages.
Validate_AnyPages(p) ==
    [code |-> 200, detail |-> "", keywords |-> Str(Strip(PyStr(Get(p.keywords, JStr(<<>>))))),
     max_pages |-> PyInt(Get(p.max_pages, JInt(DefaultPages))).v,
     exclude_free_emails |-> PyBool(p.exclude_free_emails)]

\* The checks of start(): what it answers with (400 and the detail), or, with
\* code 200, the fields of the job it goes on to register.
Validate(p) ==
    LET kw == Strip(PyStr(Get(p.keywords, JStr(<<>>))))
        mp == PyInt(Get(p.max_pages, JInt(DefaultPages)))
        refuse(d) == [code |-> 400, detail |-> d, keywords |-> "", max_pages |-> 0,
                      exclude_free_emails |-> FALSE]
    IN  IF kw = <<>> THEN refuse("Please enter search keywords")
        ELSE IF ~mp.ok THEN refuse("Invalid max_pages")
        ELSE IF mp.v < MinPagesAllowed \/ mp.v > MaxPagesAllowed
             THEN refuse("Max pages must be between 1 and 10")
             ELSE [code |-> 200, detail |-> "", keywords |-> Str(kw), max_pages |-> mp.v,
                   exclude_free_emails |-> PyBool(p.exclude_free_emails)]

\* The payloads requests come with.
KeywordValues ==
    { Absent, JNull, JStr(<<>>), JStr(<<" ", "\t">>), JStr(<<" ", "f", "o", "o", " ">>) }

PagesValues ==
    { Absent, JNull, JInt(0 - 1), JInt(0), JInt(1), JInt(10), JInt(11),
      JTenths(5), JTenths(109), JTenths(110),
      JStr(<<" ", "1", "0">>), JStr(<<"1", "1">>), JStr(<<"1", ".", "5">>), JStr(<<"a">>), JStr(<<>>) }

Payloads ==
    [keywords : KeywordValues, max_pages : PagesValues, exclude_free_emails : {Absent}]
        \cup [keywords : KeywordValues, max_pages : {Absent}, exclude_free_emails : {JBool(TRUE)}]

\* The payloads the requests of SpecServer come with: two that are accepted,
\* one for each of the three refusals.
Foo == JStr(<<" ", "f", "o", "o", " ">>)

ServerPayloads ==
    { [keywords |-> Foo, max_pages |-> Absent, exclude_free_emails |-> Absent],
      [keywords |-> Foo, max_pages |-> JInt(1), exclude_free_emails |-> JBool(TRUE)],
      [keywords |-> JStr(<<" ">>), max_pages |-> Absent, exclude_free_emails |-> Absent],
      [keywords |-> Foo, max_pages |-> JStr(<<"a">>), exclude_free_emails |-> Absent],
      [keywords |-> Foo, max_pages |-> JInt(11), exclude_free_emails |-> Absent] }

\* ------------------------------------------------------- email extraction

\* The letters, and the characters addresses are made of in the order of
\* their code points (the order sorted() puts strings in).
Alphabet ==
    [upper |-> <<"A", "B", "C", "D", "E", "F", "G", "H", "I", "J", "K", "L", "M", "N", "O",
                 "P", "Q", "R", "S", "T", "U", "V", "W", "X", "Y", "Z">>,
     lower |-> <<"a", "b", "c", "d", "e", "f", "g", "h", "i", "j", "k", "l", "m", "n", "o",
                 "p", "q", "r", "s", "t", "u", "v", "w", "x", "y", "z">>,
     ascii |-> <<"%", "+", "-", ".", "0", "1", "2", "3", "4", "5", "6", "7", "8", "9", "@",
                 "A", "B", "C", "D", "E", "F", "G", "H", "I", "J", "K", "L", "M", "N", "O",
                 "P", "Q", "R", "S", "T", "U", "V", "W", "X", "Y", "Z", "_", "a", "b", "c",
                 "d", "e", "f", "g", "h", "i", "j", "k", "l", "m", "n", "o", "p", "q", "r",
                 "s", "t", "u", "v", "w", "x", "y", "z", "|">>]

\* A text that keeps its upper-case letters.
Lower_Kept(cs) == cs

\* str.lower()
Lower(cs) ==
    [k \in 1..Len(cs) |->
        IF \E n \in 1..26 : Alphabet.upper[n] = cs[k]
        THEN Alphabet.lower[CHOOSE n \in 1..26 : Alphabet.upper[n] = cs[k]]
        ELSE cs[k]]

\* EMAIL_PATTERN = r'\b[A-Za-z0-9._%+-]+@[A-Za-z0-9.-]+\.[A-Z|a-z]{2,}\b': the
\* three character classes, and what \w matches.
EmailPattern ==
    LET letters == {Alphabet.upper[n] : n \in 1..26} \cup {Alphabet.lower[n] : n \in 1..26}
        digits == {Digits[n] : n \in 1..10}
    IN  [local |-> letters \cup digits \cup {".", "_", "%", "+", "-"},
         domain |-> letters \cup digits \cup {".", "-"},
         tld |-> letters \cup {"|"},
         word |-> letters \cup digits \cup {"_"}]

\* \b before position i: one of the characters at i-1 and i is a word
\* character and the other is not (or is not there).
Boundary(cs, i) ==
    LET w(k) == k \in 1..Len(cs) /\ cs[k] \in EmailPattern.word
    IN  w(i - 1) # w(i)

\* Where the longest run of characters of the class that starts at i ends
\* (i - 1 if the character at i is not of the class).
RunEnd(cs, i, class) ==
    LET stops == {k \in i..Len(cs) : cs[k] \notin class}
    IN  IF stops = {} THEN Len(cs) ELSE (CHOOSE k \in stops : \A l \in stops : k <= l) - 1

\* Where the match of EMAIL_PATTERN that starts at i ends, 0 if there is
\* none.  The local part is the whole run before the "@"; the domain is cut
\* at the last "." after which two or more characters of the last class can
\* be taken up to a word boundary, as many of them as possible.
MatchEnd(cs, i) ==
    IF ~(i <= Len(cs) /\ cs[i] \in EmailPattern.local /\ Boundary(cs, i)) THEN 0
    ELSE LET p == RunEnd(cs, i, EmailPattern.local)
         IN  IF p + 1 > Len(cs) \/ cs[p + 1] # "@" THEN 0
             ELSE LET q == RunEnd(cs, p + 2, EmailPattern.domain)
                      ends(k) == {m \in (k + 3)..RunEnd(cs, k + 2, EmailPattern.tld) :
                                     Boundary(cs, m + 1)}
                      ks == {k \in (p + 2)..(q - 1) : cs[k + 1] = "." /\ ends(k) # {}}
                  IN  IF ks = {} THEN 0
                      ELSE LET k == CHOOSE x \in ks : \A y \in ks : y <= x
                           IN  CHOOSE m \in ends(k) : \A n \in ends(k) : n <= m

\* re.findall(EMAIL_PATTERN, text), scanning from i: the matches from left to
\* right, none overlapping another.
RECURSIVE FindAll(_, _)
FindAll(cs, i) ==
    IF i > Len(cs) THEN <<>>
    ELSE LET e == MatchEnd(cs, i)
         IN  IF e = 0 THEN FindAll(cs, i + 1)
             ELSE <<SubSeq(cs, i, e)>> \o FindAll(cs, e + 1)

\* extract_emails: set(email.lower() for email in emails)
extract_emails(text) ==
    IF text = <<>> THEN {}
    ELSE LET found == FindAll(text, 1) IN {Lower(found[k]) : k \in 1..Len(found)}

\* a < b for two strings: by the code points at the first place they differ,
\* a proper prefix coming first.
Before(a, b) ==
    LET ord(c) == CHOOSE n \in 1..Len(Alphabet.ascii) : Alphabet.ascii[n] = c
        n == IF Len(a) < Len(b) THEN Len(a) ELSE Len(b)
        d == {k \in 1..n : a[k] # b[k]}
    IN  IF d = {} THEN Len(a) < Len(b)
        ELSE LET k == CHOOSE x \in d : \A y \in d : x <= y IN ord(a[k]) < ord(b[k])

\* get_sorted_emails: sorted(list(emails))
RECURSIVE get_sorted_emails(_)
get_sorted_emails(emails) ==
    IF emails = {} THEN <<>>
    ELSE LET m == CHOOSE x \in emails : \A y \in emails \ {x} : Before(x, y)
         IN  <<m>> \o get_sorted_emails(emails \ {m})

\* free_domains of _run_job.
FreeDomains ==
    { <<"g", "m", "a", "i", "l", ".", "c", "o", "m">>,
      <<"y", "a", "h", "o", "o", ".", "c", "o", "m">>,
      <<"o", "u", "t", "l", "o", "o", "k", ".", "c", "o", "m">>,
      <<"h", "o", "t", "m", "a", "i", "l", ".", "c", "o", "m">>,
      <<"a", "o", "l", ".", "c", "o", "m">>,
      <<"m", "a", "i", "l", ".", "c", "o", "m">>,
      <<"p", "r", "o", "t", "o", "n", "m", "a", "i", "l", ".", "c", "o", "m">>,
      <<"i", "c", "l", "o", "u", "d", ".", "c", "o", "m">> }

\* {email for email in emails if not any(email.endswith(f"@{d}") for d in free_domains)}
WithoutFree(emails) ==
    LET endswith(e, t) == Len(e) >= Len(t) /\ SubSeq(e, Len(e) - Len(t) + 1, Len(e)) = t
    IN  {e \in emails : ~\E d \in FreeDomains : endswith(e, <<"@">> \o d)}

\* EmailExtractor.filter_emails: nothing to exclude gives the set back; else
\* an address stays unless email.split('@')[1].lower() is one of the
\* lower-cased domains.
filter_emails(emails, exclude_domains) ==
    IF exclude_domains = <<>> THEN emails
    ELSE LET excluded == {Lower(exclude_domains[k]) : k \in 1..Len(exclude_domains)}
             ats(e) == {k \in 1..Len(e) : e[k] = "@"}
             first(e) == CHOOSE k \in ats(e) : \A l \in ats(e) : k <= l
             later(e) == {k \in ats(e) : k > first(e)}
             domain(e) == SubSeq(e, first(e) + 1,
                                 IF later(e) = {} THEN Len(e)
                                 ELSE (CHOOSE k \in later(e) : \A l \in later(e) : k <= l) - 1)
         IN  {e \in emails : Lower(domain(e)) \notin excluded}

\* The texts the pages of a search may come to: none, two addresses, no
\* address, the same address in two spellings, an address at the end of a
\* sentence, free addresses only, odd characters around and inside
\* addresses, free domains inside longer ones.
Texts ==
    { <<>>,
      <<"b", "@", "g", "m", "a", "i", "l", ".", "c", "o", "m", " ", "a", "@", "x", ".", "c",
        "o", "m", "\n">>,
      <<"n", "o", " ", "a", "d", "d", "r", "e", "s", "s", " ", "o", "n", " ", "t", "h", "i",
        "s", " ", "p", "a", "g", "e", "\n">>,
      <<"B", "o", "b", "@", "G", "m", "a", "i", "l", ".", "c", "o", "m", ",", " ", "a", "@",
        "x", ".", "c", "o", "m", ";", " ", "b", "o", "b", "@", "g", "m", "a", "i", "l", ".",
        "c", "o", "m", "\n">>,
      <<"z", "@", "q", ".", "i", "o", " ", "A", "@", "X", ".", "C", "O", "M", " ", "a", "@",
        "x", ".", "c", "o", "m", ".", "\n">>,
      <<"x", "@", "m", "a", "i", "l", ".", "c", "o", "m", " ", "y", "@", "h", "o", "t", "m",
        "a", "i", "l", ".", "c", "o", "m", "\n">>,
      <<"<", "c", "_", "d", "@", "e", "-", "f", ".", "c", "o", "|", "m", ">", " ", "u", "@",
        "v", ".", "w", " ", "x", "@", "y", ".", "z", "1", " ", "a", "@", "b", "\n">>,
      <<"p", "@", "i", "c", "l", "o", "u", "d", ".", "c", "o", "m", ".", "a", "u", " ", "q",
        "@", "y", "a", "h", "o", "o", ".", "c", "o", "m", " ", "r", "%", "s", "+", "t", "@",
        "a", "o", "l", ".", "c", "o", "m", "\n">> }

\* What scrape_google returns to the jobs of the server: nothing, or a text
\* with a free address and another.
ScrapedTexts ==
    { <<>>,
      <<"b", "@", "g", "m", "a", "i", "l", ".", "c", "o", "m", " ", "a", "@", "x", ".", "c", "o", "m", "\n">> }

\* extract_emails_from_text, the filter of free domains if it is asked for,
\* and get_sorted_emails, worked out once for every text.
EmailLists ==
    [text \in Texts \cup ScrapedTexts, exclude \in BOOLEAN |->
        get_sorted_emails(IF exclude THEN WithoutFree(extract_emails(text))
                          ELSE extract_emails(text))]

\* A log line: which message, and the numbers it carries.
Line(m, a, b) == [m |-> m, a |-> a, b |-> b]

\* An _append_log that cuts the list before it appends.
AppendLog_CutFirst(lines, e) ==
    Append(IF Len(lines) > LogCap THEN SubSeq(lines, Len(lines) - LogCap + 1, Len(lines))
           ELSE lines, e)

\* _append_log: append, then keep the last 200.
AppendLog(lines, e) ==
    LET l == Append(lines, e)
    IN  IF Len(l) > LogCap THEN SubSeq(l, Len(l) - LogCap + 1, Len(l)) ELSE l

\* A lock anyone may take at any time.
LockFree_Always(l) == TRUE

\* with _jobs_lock: the lock can be taken when no thread holds it.
LockFree(l) == l = NoHolder

\* A module-level scraper every call shares.
NewScraper_Shared(n) == 1

\* scraper = GoogleScraper(...): a new instance with each call of
\* scrape_google; n instances were built before.
NewScraper(n) == n + 1

\* A callback that lets the pages count for the whole of the progress bar.
PageProgress_OutOf100(current, total) == (current * 100) \div (IF total > 1 THEN total ELSE 1)

\* int((current_page / max(total_pages, 1)) * 50)
PageProgress(current, total) == (current * 50) \div (IF total > 1 THEN total ELSE 1)

\* A with-block of worker j is entered at position `from`: the lock is taken,
\* the job looked up (`if not j: return`), and the block's first statement
\* makes the job `rec`.
Enter(j, from, mid, rec) ==
    /\ threads[j].pc = from
    /\ LockFree(lock)
    /\ IF jobs[j] = NoJob
       THEN /\ threads' = [threads EXCEPT ![j].pc = "finished"]
            /\ UNCHANGED <<jobs, lock>>
       ELSE /\ threads' = [threads EXCEPT ![j].pc = mid]
            /\ jobs' = [jobs EXCEPT ![j] = rec]
            /\ lock' = WorkerThread(j)
    /\ UNCHANGED <<handlers, sessions, scraper, payload>>

\* The rest of the with-block makes the job `rec`; the lock is released and
\* the thread goes on as `next`.
Leave(j, mid, rec, next) ==
    /\ threads[j].pc = mid
    /\ jobs' = [jobs EXCEPT ![j] = rec]
    /\ lock' = NoHolder
    /\ threads' = [threads EXCEPT ![j] = next]
    /\ UNCHANGED <<handlers, sessions, scraper, payload>>

At(j, p) == [threads[j] EXCEPT !.pc = p]

\* _run_job, lines 45-49: job.status = "running"
RunBegin(j) == Enter(j, "begin", "A", [jobs[j] EXCEPT !.status = "running"])

\* lines 50-59: the fields are reset and the parameters copied to locals.
RunReset(j) ==
    Leave(j, "A",
          [jobs[j] EXCEPT !.progress = 0, !.error = NoError, !.scraped_text = <<>>,
                          !.emails_found = <<>>, !.logs = <<>>],
          [threads[j] EXCEPT !.pc = "B0", !.keywords = jobs[j].keywords,
                             !.max_pages = jobs[j].max_pages,
                             !.exclude_free_emails = jobs[j].exclude_free_emails])

\* lines 71-75: "Starting search for: ..."
LogStart(j) ==
    Enter(j, "B0", "B", [jobs[j] EXCEPT !.logs = AppendLog(@, Line("start", 0, 0))])

\* lines 76-78: "Max pages: ...", "Headless mode: ...", the rule.
LogStartRest(j) ==
    Leave(j, "B",
          [jobs[j] EXCEPT !.logs = AppendLog(AppendLog(AppendLog(@,
                              Line("max", threads[j].max_pages, 0)),
                              Line("headless", 0, 0)), Line("rule", 0, 0))],
          At(j, "scrape"))

\* line 80, scrape_google: a GoogleScraper is built and search_and_extract
\* called on it, in this thread.
ScrapeCall(j) ==
    /\ threads[j].pc = "scrape"
    /\ LET i == NewScraper(Len(sessions))
       IN  /\ sessions' = IF i > Len(sessions) THEN Append(sessions, {j})
                          ELSE [sessions EXCEPT ![i] = @ \cup {j}]
           /\ threads' = [threads EXCEPT ![j].pc = "pages", ![j].scraper = i, ![j].page = 0]
    /\ UNCHANGED <<jobs, lock, handlers, scraper, payload>>

\* The run hands a page to progress_callback (lines 61-67): j.progress = ...
PageReported(j) ==
    /\ threads[j].page < threads[j].max_pages
    /\ Enter(j, "pages", "cb",
             [jobs[j] EXCEPT !.progress = PageProgress(threads[j].page + 1, threads[j].max_pages)])

\* line 68: "Page c/t completed"; the callback returns.
PageLogged(j) ==
    Leave(j, "cb",
          [jobs[j] EXCEPT !.logs = AppendLog(@, Line("page", threads[j].page + 1,
                                                          threads[j].max_pages))],
          [threads[j] EXCEPT !.pc = "pages", !.page = @ + 1])

\* A page the run lets pass without calling the callback (its navigation
\* timed out); one of the first MaxSkips pages.
PageSkipped(j) ==
    /\ threads[j].pc = "pages"
    /\ threads[j].page < threads[j].max_pages
    /\ threads[j].page < MaxSkips
    /\ threads' = [threads EXCEPT ![j].page = @ + 1]
    /\ UNCHANGED <<jobs, lock, handlers, sessions, scraper, payload>>

\* scrape_google raises: setup failed, or a page's error left the loop.
ScrapeRaises(j) ==
    /\ threads[j].pc = "pages"
    /\ threads' = [threads EXCEPT ![j].pc = "E0", ![j].exc = "scrape failed"]
    /\ UNCHANGED <<jobs, lock, handlers, sessions, scraper, payload>>

\* scrape_google returns the text, one of `texts`.
ScrapeReturnsFrom(j, texts) ==
    /\ threads[j].pc = "pages"
    /\ threads[j].page = threads[j].max_pages
    /\ \E text \in texts :
          threads' = [threads EXCEPT ![j].pc = "C0", ![j].scraped_text = text]
    /\ UNCHANGED <<jobs, lock, handlers, sessions, scraper, payload>>

ScrapeReturns(j) == ScrapeReturnsFrom(j, ScrapedTexts)

\* lines 88-92: j.scraped_text = scraped_text
StoreText(j) ==
    Enter(j, "C0", "C", [jobs[j] EXCEPT !.scraped_text = threads[j].scraped_text])

\* lines 93-96: j.progress = 50 and three log lines.
StoreTextRest(j) ==
    Leave(j, "C",
          [jobs[j] EXCEPT !.progress = 50,
                          !.logs = AppendLog(AppendLog(AppendLog(@, Line("rule", 0, 0)),
                                       Line("scraped", Len(threads[j].scraped_text), 0)),
                                       Line("extracting", 0, 0))],
          At(j, "extract"))

\* lines 98-122: extract_emails_from_text, the filter, get_sorted_emails; any
\* of them may raise.
ExtractEmails(j) ==
    /\ threads[j].pc = "extract"
    /\ \/ threads' = [threads EXCEPT
                ![j].emails = EmailLists[threads[j].scraped_text, threads[j].exclude_free_emails],
                ![j].pc = IF threads[j].exclude_free_emails THEN "F0" ELSE "D0"]
       \/ threads' = [threads EXCEPT ![j].pc = "E0", ![j].exc = "extraction failed"]
    /\ UNCHANGED <<jobs, lock, handlers, sessions, scraper, payload>>

\* lines 113-120: "Filtered: ..."
LogFilter(j) ==
    Enter(j, "F0", "F", [jobs[j] EXCEPT !.logs = AppendLog(@, Line("filtered", 0, 0))])

LogFilterRest(j) == Leave(j, "F", jobs[j], At(j, "D0"))

\* lines 124-128: j.emails_found = sorted_emails
StoreEmails(j) ==
    Enter(j, "D0", "D", [jobs[j] EXCEPT !.emails_found = threads[j].emails])

\* lines 129-131: j.progress = 75 and two log lines.
StoreEmailsRest(j) ==
    Leave(j, "D",
          [jobs[j] EXCEPT !.progress = 75,
                          !.logs = AppendLog(AppendLog(@,
                                       Line("count", Len(threads[j].emails), 0)),
                                       Line("generating", 0, 0))],
          At(j, "excel"))

\* line 133: generate_excel_from_emails(sorted_emails), which may raise.
MakeExcel(j) ==
    /\ threads[j].pc = "excel"
    /\ \/ threads' = [threads EXCEPT ![j].pc = "G0"]
       \/ threads' = [threads EXCEPT ![j].pc = "E0", ![j].exc = "excel failed"]
    /\ UNCHANGED <<jobs, lock, handlers, sessions, scraper, payload>>

\* A last block that raises after it has set the status.
FinishRest_ThenRaises(j) ==
    Leave(j, "G",
          [jobs[j] EXCEPT !.logs = AppendLog(AppendLog(@, Line("generated", 0, 0)),
                                             Line("rule", 0, 0)),
                          !.status = "done"],
          [threads[j] EXCEPT !.pc = "E0", !.exc = "late failure"])

\* lines 135-139: j.progress = 100
Finish(j) == Enter(j, "G0", "G", [jobs[j] EXCEPT !.progress = 100])

\* lines 140-142: two log lines, j.status = "done".
FinishRest(j) ==
    Leave(j, "G",
          [jobs[j] EXCEPT !.logs = AppendLog(AppendLog(@, Line("generated", 0, 0)),
                                             Line("rule", 0, 0)),
                          !.status = "done"],
          At(j, "finished"))

\* An except clause that swallows the exception and writes nothing.
Fail_Silent(j) ==
    /\ threads[j].pc = "E0"
    /\ threads' = [threads EXCEPT ![j].pc = "finished"]
    /\ UNCHANGED <<jobs, lock, handlers, sessions, scraper, payload>>

\* lines 144-149: except Exception: j.status = "error"
Fail(j) == Enter(j, "E0", "E", [jobs[j] EXCEPT !.status = "error"])

\* lines 150-151: j.error = str(e) and the log line.
FailRest(j) ==
    Leave(j, "E",
          [jobs[j] EXCEPT !.error = threads[j].exc,
                          !.logs = AppendLog(@, Line("error", 0, 0))],
          At(j, "finished"))

RunJob ==
    \E j \in JobIds :
        \/ RunBegin(j)
        \/ RunReset(j)
        \/ LogStart(j)
        \/ LogStartRest(j)
        \/ ScrapeCall(j)
        \/ PageReported(j)
        \/ PageLogged(j)
        \/ PageSkipped(j)
        \/ ScrapeRaises(j)
        \/ ScrapeReturns(j)
        \/ StoreText(j)
        \/ StoreTextRest(j)
        \/ ExtractEmails(j)
        \/ LogFilter(j)
        \/ LogFilterRest(j)
        \/ StoreEmails(j)
        \/ StoreEmailsRest(j)
        \/ MakeExcel(j)
        \/ Finish(j)
        \/ FinishRest(j)
        \/ Fail(j)
        \/ FailRest(j)

\* The ids uuid4 can still give: those no job and no pending start has.
FreeIds ==
    {i \in JobIds : jobs[i] = NoJob
                      /\ \A h \in HandlerIds : handlers[h].pc = "idle" \/ handlers[h].job_id # i}

Refused(code, detail) == [NoResponse EXCEPT !.code = code, !.detail = detail]

Answered(body) == [NoResponse EXCEPT !.code = 200, !.body = body]

\* The last n entries of a list: logs[-n:].
LastN(l, n) == IF Len(l) > n THEN SubSeq(l, Len(l) - n + 1, Len(l)) ELSE l

\* POST /api/start with payload p, lines 171-195: the payload is checked and
\* the JobState built.
StartWith(h, p) ==
    /\ handlers[h].pc = "idle"
    /\ LET v == Validate(p)
       IN  IF v.code = 400
           THEN handlers' = [handlers EXCEPT ![h] = [IdleHandler EXCEPT !.resp = Refused(400, v.detail)]]
           ELSE /\ FreeIds # {}
                /\ handlers' = [handlers EXCEPT
                      ![h] = [pc |-> "register",
                              job_id |-> CHOOSE i \in FreeIds : \A k \in FreeIds : i <= k,
                              job |-> NewJob(v.keywords, v.max_pages, v.exclude_free_emails),
                              resp |-> NoResponse]]
    /\ UNCHANGED <<jobs, lock, threads, sessions, scraper>>

ApiStart(h) == UNCHANGED payload /\ \E p \in ServerPayloads : StartWith(h, p)

\* lines 197-198: with _jobs_lock: _jobs[job_id] = job
Register(h) ==
    /\ handlers[h].pc = "register"
    /\ LockFree(lock)
    /\ jobs' = [jobs EXCEPT ![handlers[h].job_id] = handlers[h].job]
    /\ handlers' = [handlers EXCEPT ![h].pc = "spawn"]
    /\ UNCHANGED <<lock, threads, sessions, scraper, payload>>

\* lines 200-203: the worker thread is started and the job id answered.
Spawn(h) ==
    /\ handlers[h].pc = "spawn"
    /\ threads' = [threads EXCEPT ![handlers[h].job_id] = [NoThread EXCEPT !.pc = "begin"]]
    /\ handlers' = [handlers EXCEPT
          ![h] = [IdleHandler EXCEPT !.resp = Answered("job_id")]]
    /\ UNCHANGED <<jobs, lock, sessions, scraper, payload>>

\* The body of a status answer for a job: its fields, the last 20 log lines.
StatusBody(job) == [job EXCEPT !.logs = LastN(@, StatusLogs)]

HasLine(job, m) == \E i \in DOMAIN job.logs : job.logs[i].m = m

\* The progress the last "Page c/t completed" line of a job goes with.
LoggedProgress(job) ==
    LET ps == {i \in DOMAIN job.logs : job.logs[i].m = "page"}
    IN  IF ps = {} THEN 0
        ELSE LET i == CHOOSE k \in ps : \A l \in ps : l <= k
             IN  PageProgress(job.logs[i].a, job.logs[i].b)

\* The fields are those of a job between two with-blocks of _run_job: every
\* block's assignments are there together with the log lines the block ends
\* with.  status "done" goes with progress 100 (lines 139-142), "error" with
\* the error text (149-150); the start banner is complete (75-78); before
\* "Extracting emails..." no text is stored and progress is that of the last
\* page logged (66-68, 92-96); before "Generating Excel..." no emails are
\* stored and progress is at most 50 (128-131).
Whole(job) ==
    /\ job.status = "done" <=> job.progress = 100
    /\ job.status = "error" <=> job.error # NoError
    /\ job.status = "idle" => job = NewJob(job.keywords, job.max_pages, job.exclude_free_emails)
    /\ job.logs # <<>> => job.logs[Len(job.logs)].m # "start"
    /\ ~HasLine(job, "extracting") =>
          job.scraped_text = <<>> /\ job.progress = LoggedProgress(job)
    /\ ~HasLine(job, "generating") =>
          job.emails_found = <<>> /\ job.progress <= 50

\* GET /api/status/{job_id}: the job is read, and the answer StatusBody built
\* from it, under the lock.
ApiStatus(h) ==
    /\ handlers[h].pc = "idle"
    /\ LockFree(lock)
    /\ \E id \in JobIds :
          handlers' = [handlers EXCEPT ![h] = [IdleHandler EXCEPT !.resp =
              IF jobs[id] = NoJob THEN Refused(404, "Job not found")
              ELSE Answered(IF Whole(StatusBody(jobs[id])) THEN "whole" ELSE "torn")]]
    /\ UNCHANGED <<jobs, lock, threads, sessions, scraper, payload>>

\* A download that serves the emails of finished jobs only.
ApiDownload_WhenDone(h) ==
    /\ handlers[h].pc = "idle"
    /\ LockFree(lock)
    /\ \E id \in JobIds :
          handlers' = [handlers EXCEPT ![h] = [IdleHandler EXCEPT !.job_id = id, !.resp =
              IF jobs[id] = NoJob THEN Refused(404, "Job not found")
              ELSE IF jobs[id].emails_found = <<>> \/ jobs[id].status # "done"
                   THEN Refused(400, "No emails available")
                   ELSE Answered("file")]]
    /\ UNCHANGED <<jobs, lock, threads, sessions, scraper, payload>>

\* A download that takes the job out of the map once it has served it.
ApiDownload_Pops(h) ==
    /\ handlers[h].pc = "idle"
    /\ LockFree(lock)
    /\ \E id \in JobIds :
          /\ handlers' = [handlers EXCEPT ![h] = [IdleHandler EXCEPT !.job_id = id, !.resp =
                 IF jobs[id] = NoJob THEN Refused(404, "Job not found")
                 ELSE IF jobs[id].emails_found = <<>> THEN Refused(400, "No emails available")
                 ELSE Answered("file")]]
          /\ jobs' = IF jobs[id].emails_found # <<>> THEN [jobs EXCEPT ![id] = NoJob] ELSE jobs
    /\ UNCHANGED <<lock, threads, sessions, scraper, payload>>

\* GET /download/{job_id}/xlsx, csv, txt: emails_found and keywords are copied
\* under the lock; an empty list is refused.  The handler keeps the id it was
\* asked for next to its answer.
ApiDownload(h) ==
    /\ handlers[h].pc = "idle"
    /\ LockFree(lock)
    /\ \E id \in JobIds :
          handlers' = [handlers EXCEPT ![h] = [IdleHandler EXCEPT !.job_id = id, !.resp =
              IF jobs[id] = NoJob THEN Refused(404, "Job not found")
              ELSE IF jobs[id].emails_found = <<>> THEN Refused(400, "No emails available")
              ELSE Answered("file")]]
    /\ UNCHANGED <<jobs, lock, threads, sessions, scraper, payload>>

Requests ==
    \E h \in HandlerIds :
        \/ ApiStart(h)
        \/ Register(h)
        \/ Spawn(h)
        \/ ApiStatus(h)
        \/ ApiDownload(h)

NextServer == RunJob \/ Requests

\* The server with no request made yet; the scraper of the first part of the
\* module stands idle.
InitServer == Init /\ variant = "sync" /\ max_pages = 1 /\ has_callback

SpecServer == InitServer /\ [][NextServer]_vars

\* The server with worker threads that keep running: a step of _run_job that
\* stays possible is eventually taken (every call it makes returns or raises,
\* and whoever holds the lock lets go of it).
SpecServerLive == InitServer /\ [][NextServer]_vars /\ WF_vars(RunJob)

\* The server's first request is a start; `payload` keeps what it came with.
FirstStart(h) ==
    /\ \A g \in HandlerIds : handlers[g] = IdleHandler
    /\ \A j \in JobIds : jobs[j] = NoJob
    /\ \E p \in Payloads : StartWith(h, p) /\ payload' = p

\* One start request, with any payload, and the job it leads to.
NextStart ==
    \/ RunJob
    \/ \E h \in HandlerIds : FirstStart(h) \/ Register(h) \/ Spawn(h)

SpecStart == InitServer /\ [][NextStart]_vars

\* One job, started with any payload, whose search comes to any of Texts.
NextEmails == NextStart \/ \E j \in JobIds : ScrapeReturnsFrom(j, Texts)

SpecEmails == InitServer /\ [][NextEmails]_vars

\* ------------------------------------------------------- the log of a job

\* The number of lines a caller appends to one job's log.
MaxAppends == 204

\* The job whose log is appended to: the first id.
LogJob == CHOOSE j \in JobIds : \A k \in JobIds : j <= k

\* The number the next line carries: the lines are numbered as they come.
NextLine(lines) == IF lines = <<>> THEN 1 ELSE lines[Len(lines)].a + 1

\* A JobState is built and put into the map, as start() does.
LogNew ==
    /\ jobs[LogJob] = NoJob
    /\ LockFree(lock)
    /\ jobs' = [jobs EXCEPT ![LogJob] = NewJob("foo", 1, FALSE)]
    /\ UNCHANGED <<scraper, lock, threads, handlers, sessions, payload>>

\* _append_log(job, message), called with the lock held as all its callers do.
LogAppend ==
    /\ jobs[LogJob] # NoJob
    /\ LockFree(lock)
    /\ NextLine(jobs[LogJob].logs) <= MaxAppends
    /\ jobs' = [jobs EXCEPT ![LogJob].logs = AppendLog(@, Line("page", NextLine(@), 0))]
    /\ UNCHANGED <<scraper, lock, threads, handlers, sessions, payload>>

\* GET /api/status/{job_id}; the handler keeps the body it answered with.
LogStatus(h) ==
    /\ handlers[h].pc = "idle"
    /\ LockFree(lock)
    /\ \E id \in JobIds :
          handlers' = [handlers EXCEPT ![h] =
              IF jobs[id] = NoJob
              THEN [IdleHandler EXCEPT !.resp = Refused(404, "Job not found")]
              ELSE [IdleHandler EXCEPT !.job_id = id, !.job = StatusBody(jobs[id]),
                                       !.resp = Answered("whole")]]
    /\ UNCHANGED <<scraper, jobs, lock, threads, sessions, payload>>

NextLog == LogNew \/ LogAppend \/ \E h \in HandlerIds : LogStatus(h)

\* One job's log under any number of appends, and the status requests for it.
SpecLog == InitServer /\ [][NextLog]_vars

\* ------------------------------------------------------------ properties

Pages == 0..(max_pages - 1)

\* Statuses of a page whose iteration is over: handled to its end, or failed.
Failed == {"nav_timeout", "nav_error", "ready_error", "extract_error", "cb_error"}
Over == Failed \cup {"completed"}

\* Positions of the worker after the loop.
AfterLoop == {"close", "exit", "done"}

\* What the pages from index i on added to the text, in page order.
RECURSIVE AddsFrom(_)
AddsFrom(i) == IF i >= MaxPages THEN "" ELSE page_log[i].add \o AddsFrom(i + 1)

\* Progress events delivered for page index i.
Events(i) == Cardinality({k \in 1..Len(progress_log) : progress_log[k][1] = i + 1})

\* C1: on every exit path the close routine has run exactly once when control
\* returns to the caller, never more than once, and the browser and the page
\* are not left open.
C1_ClosedOnceOnEveryExit ==
    /\ close_calls <= 1
    /\ pc \in {"exit", "done"} => close_calls = 1
    /\ result.kind # "none" =>
          /\ close_calls = 1
          /\ handles.browser # "open"
          /\ handles.page # "open"

\* Setup failed after the browser was launched, and the run closed it.
C1_Witness ==
    /\ pc = "done"
    /\ result.kind = "raised"
    /\ exc = "setup"
    /\ handles.browser = "closed"
    /\ handles.page = "null"
    /\ close_calls = 1

\* C2: a run raises only when setup failed; after any failure of a page's
\* processing it returns a string.
C2_RaisesOnlyOnSetupFailure ==
    pc = "done" => (result.kind = "raised" <=> exc = "setup")

\* C3: with stop never set, a page whose navigation throws does not keep the
\* later indices from being attempted, and the returned text is what the
\* other pages added, in page order, with nothing for the failed page.
C3_FailureIsolation ==
    (pc = "done" /\ exc # "setup" /\ stop_at = NoStop) =>
        \A i \in Pages :
            page_log[i].st \in {"nav_timeout", "nav_error"} =>
                /\ \A j \in Pages : j > i => Len(nav_log) > j
                /\ result.kind = "returned"
                /\ result.text = AddsFrom(0)
                /\ page_log[i].add = ""

\* C4: stop set while page k is processed lets page k run to its end, the
\* worker then gets no further than the stop check of iteration k+1 and no
\* request for an index above k is issued; stop set before an iteration begins
\* keeps that iteration from navigating, extracting and reporting progress.
C4_StopOnlyBetweenPages ==
    /\ stop_at.phase = "page" =>
          /\ Len(nav_log) <= stop_at.page + 1
          /\ page_num <= stop_at.page + 1
          /\ page_num = stop_at.page + 1 => pc \in {"loop_top"} \cup AfterLoop
          /\ (pc \in AfterLoop \/ page_num = stop_at.page + 1) =>
                page_log[stop_at.page].st \in Over
    /\ stop_at.phase \in {"before", "top"} =>
          /\ Len(nav_log) <= stop_at.page
          /\ page_num <= stop_at.page
          /\ pc \in {"idle", "setup", "loop_top"} \cup AfterLoop
          /\ \A j \in stop_at.page..(MaxPages - 1) : page_log[j].st = "none"
          /\ \A k \in 1..Len(progress_log) : progress_log[k][1] <= stop_at.page

\* Stop came while the second of three pages was processed: that page was
\* handled to its end and the third was never requested.
C4_Witness ==
    /\ pc = "done"
    /\ max_pages = 3
    /\ stop_at = [page |-> 1, phase |-> "page"]
    /\ page_log[1].st = "completed"
    /\ Len(nav_log) = 2

\* C5: a poll of the pause loop that finds the stop flag set leaves the loop
\* for the close, with no navigation.
C5_StopPolledInPauseSpin ==
    [][(PauseCheck /\ spins > 0 /\ pause_flag /\ stop_flag) => pc' = "close"]_vars

C6_Inv ==
    pc \in {"loop_top", "pause_check"} =>
        /\ Len(nav_log) = page_num
        /\ has_callback =>
              \A j \in 0..(page_num - 1) :
                  page_log[j].st \in {"completed", "cb_error"} => Events(j) = 1

C6_Step ==
    /\ (pc = "pause_check" /\ pause_flag) =>
          (pc' = "pause_check" /\ nav_log' = nav_log)
    /\ (pc = "pause_check" /\ pc' # "pause_check") =>
          (~pause_flag /\ pc' = "navigate" /\ nav_log' = nav_log)
    /\ nav_log' # nav_log =>
          (pc = "navigate" /\ nav_log' = Append(nav_log, Url(keywords, page_num)))

\* C6 (amended): while the pause flag is set at the pause check of iteration i
\* the worker stays there and issues no request; it leaves only on finding the
\* flag clear, and only then is the request for index i issued; when it gets
\* there the callback of every earlier page that was handled up to its
\* callback has fired.
C6_PauseBlocksProgress == []C6_Inv /\ [][C6_Step]_vars

\* The worker sleeps in the pause loop of the second iteration, the first
\* page's request and progress event behind it.
C6_Witness ==
    /\ pc = "pause_check"
    /\ pause_flag
    /\ spins > 0
    /\ page_num = 1
    /\ nav_log = <<Url(keywords, 0)>>
    /\ progress_log = <<<<1, max_pages>>>>

\* C6 as first stated: once the worker sleeps in the pause loop of iteration
\* i, the progress callback of every earlier page has fired.
C6_Original ==
    (pc = "pause_check" /\ pause_flag /\ spins > 0 /\ has_callback) =>
        \A j \in 0..(page_num - 1) : Events(j) >= 1

\* C7: the delivered current_page values increase strictly and total_pages is
\* max_pages; when every page was handled to its end the events are exactly
\* (1,N), (2,N), ..., (N,N).
C7_ProgressSequence ==
    /\ \A k \in 1..Len(progress_log) :
          /\ progress_log[k][2] = max_pages
          /\ k > 1 => progress_log[k - 1][1] < progress_log[k][1]
    /\ (pc = "done" /\ has_callback /\ \A i \in Pages : page_log[i].st = "completed") =>
          progress_log = [k \in 1..max_pages |-> <<k, max_pages>>]

\* Three pages, all handled, three events.
C7_Witness ==
    /\ pc = "done"
    /\ max_pages = 3
    /\ \A i \in Pages : page_log[i].st = "completed"
    /\ progress_log = <<<<1, 3>>, <<2, 3>>, <<3, 3>>>>

\* C8 (amended): with a callback passed, it is invoked exactly once for every
\* page that was handled up to its callback and not at all for any other page
\* (one whose navigation timed out or failed among them); without one, never.
C8_OncePerHandledPage ==
    /\ Len(progress_log) <= Len(nav_log)
    /\ \A k \in 1..Len(progress_log) : progress_log[k][1] \in 1..max_pages
    /\ \A i \in 0..(MaxPages - 1) :
          Events(i) = IF has_callback /\ page_log[i].st \in {"completed", "cb_error"}
                      THEN 1 ELSE 0

\* Three pages attempted, the second timed out in navigation: two events.
C8_Witness ==
    /\ pc = "done"
    /\ result.kind = "returned"
    /\ max_pages = 3
    /\ page_log[0].st = "completed"
    /\ page_log[1].st = "nav_timeout"
    /\ page_log[2].st = "completed"
    /\ Len(nav_log) = 3
    /\ progress_log = <<<<1, 3>>, <<3, 3>>>>

\* C8 as first stated: a run that returns has delivered one progress event
\* per page whose navigation it attempted.
C8_Original ==
    (pc = "done" /\ has_callback /\ result.kind = "returned") =>
        Len(progress_log) = Len(nav_log)

\* The requests a run makes for the keywords, written out.
C9_Expected ==
    IF keywords = "foo bar"
    THEN << "https://www.google.com/search?q=foo bar&start=0",
            "https://www.google.com/search?q=foo bar&start=10",
            "https://www.google.com/search?q=foo bar&start=20",
            "https://www.google.com/search?q=foo bar&start=30",
            "https://www.google.com/search?q=foo bar&start=40" >>
    ELSE << "https://www.google.com/search?q=a&b=c x&start=0",
            "https://www.google.com/search?q=a&b=c x&start=10",
            "https://www.google.com/search?q=a&b=c x&start=20",
            "https://www.google.com/search?q=a&b=c x&start=30",
            "https://www.google.com/search?q=a&b=c x&start=40" >>

C10_AllPagesFailReturnsEmpty ==
    (pc = "done" /\ exc # "setup"
        /\ \A i \in Pages : page_log[i].st \in {"nav_timeout", "nav_error"}) =>
        result = [kind |-> "returned", text |-> ""]

\* The non-empty text blocks page i can yield: its visible text, stripped, or
\* its markup, cleaned.
C11_Blocks(i) ==
    ({Str(Strip(VisibleText(k, i))) : k \in PageKinds}
        \cup {Str(CleanHtml(PageSource(k, i))) : k \in PageKinds}) \ {""}

\* C11: every page adds either nothing or one non-empty text block followed by
\* one newline, a page that failed before or in its extraction adds nothing,
\* and the text a run returns is what its pages added, in page order.
C11_TextIsBlocksInOrder ==
    /\ \A i \in 0..(MaxPages - 1) :
          /\ page_log[i].add \in {""} \cup {b \o "\n" : b \in C11_Blocks(i)}
          /\ page_log[i].st \in {"none", "nav_timeout", "nav_error", "ready_error",
                                 "extract_error"} => page_log[i].add = ""
    /\ result.kind = "returned" => result.text = AddsFrom(0)

C12_Inv ==
    /\ \A i \in 0..(MaxPages - 1) :
          page_log[i].st = "nav_timeout" =>
             /\ page_log[i].add = ""
             /\ Events(i) = 0
             /\ page_num > i
             /\ (i + 1 < max_pages /\ stop_at = NoStop /\ pc \in AfterLoop) =>
                   Len(nav_log) >= i + 2
    /\ pc \in {"render", "readiness", "extract", "callback", "delay"} =>
          page_log[page_num].st # "nav_timeout"

C12_Step ==
    /\ (pc = "navigate" /\ page_log'[page_num].st = "nav_timeout") =>
          /\ pc' = "loop_top"
          /\ page_num' = page_num + 1
          /\ all_text' = all_text
          /\ progress_log' = progress_log
          /\ exc' = exc
    /\ \A i \in 0..(MaxPages - 1) :
          page_log[i].st = "nav_timeout" => page_log'[i] = page_log[i]

\* C12: a navigation timeout on index i ends the iteration at once: the worker
\* goes straight to the top of the loop with index i+1, nothing is added to
\* the text, no exception is in flight, index i is never waited on, extracted
\* from or reported; and unless i was the last index or stop was set, the
\* request for index i+1 is issued.
C12_NavTimeoutSkipsPage == []C12_Inv /\ [][C12_Step]_vars

\* The second of three pages timed out in navigation, the third was handled,
\* and the run returned.
C12_Witness ==
    /\ variant = "sync"
    /\ pc = "done"
    /\ result.kind = "returned"
    /\ max_pages = 3
    /\ page_log[1] = [st |-> "nav_timeout", add |-> ""]
    /\ page_log[2].st = "completed"
    /\ Len(nav_log) = 3

C13_Inv ==
    exc = "setup" =>
        /\ pc \in AfterLoop
        /\ nav_log = <<>>
        /\ progress_log = <<>>
        /\ all_text = ""
        /\ \A i \in 0..(MaxPages - 1) : page_log[i] = NoPage
        /\ result \in {NoResult, [kind |-> "raised", text |-> ""]}
        /\ pc = "done" => result.kind = "raised"
        /\ pc = "close" => close_calls = 0
        /\ pc \in {"exit", "done"} =>
              /\ close_calls = 1
              /\ handles.browser # "open"
              /\ handles.page # "open"
              /\ variant = "sync" => handles.playwright # "open"

C13_Step ==
    /\ (pc' = "setup" /\ pc # "setup") => pc = "idle"
    /\ exc = "setup" =>
          /\ exc' = "setup"
          /\ pc' # pc => <<pc, pc'>> \in {<<"close", "exit">>, <<"exit", "done">>}

\* C13: once setup has failed the run only closes and raises: no request, no
\* progress event, no text, nothing returned; setup is entered only from the
\* call of the run, never again; and the close routine runs once, leaving
\* open none of the handles the instance acquired before the failure.
C13_SetupFailureIsFatal == []C13_Inv /\ [][C13_Step]_vars

\* The browser failed to launch after the Playwright driver had started: the
\* driver was stopped and the run raised.
C13_Witness ==
    /\ variant = "sync"
    /\ pc = "done"
    /\ exc = "setup"
    /\ result = [kind |-> "raised", text |-> ""]
    /\ handles = [playwright |-> "closed", browser |-> "null", page |-> "null"]
    /\ nav_log = <<>>
    /\ close_calls = 1

\* C14: the close routine never calls into a handle that was closed before,
\* be it called on an instance whose setup failed part-way or once more on
\* one it has closed already.
C14_CloseNeverOnReleased == stale = {}

\* C15: an interactive helper gives true when it met an open page and false,
\* without raising, when it met none: before any run and after a run's close.
C15_HelperTrueIffActive ==
    helper # NoHelper =>
        helper.gave = IF helper.page = "open" THEN "true" ELSE "false"

\* C16: a run called on an instance that has a run behind it starts with the
\* pause flag and the stop flag both clear.
C16_FlagsClearAtRunStart ==
    [][(pc = "done" /\ pc' = "setup") => (~pause_flag' /\ ~stop_flag')]_vars

\* The workers that are inside scrape_google: between the call and its return
\* or raise.
Scraping == {j \in JobIds : threads[j].pc \in {"pages", "cb"}}

\* C17: a browser session is owned by one run's worker.  With several jobs
\* started through the server, no scraper instance (and so no page or browser
\* handle, which an instance launches for itself) is ever used by two worker
\* threads: each instance built has exactly the one worker that built it, and
\* two workers hold different instances.
C17_SessionOwnedByOneWorker ==
    /\ \A i \in 1..Len(sessions) : Cardinality(sessions[i]) = 1
    /\ \A j \in JobIds :
          threads[j].scraper # 0 =>
             /\ threads[j].scraper \in 1..Len(sessions)
             /\ sessions[threads[j].scraper] = {j}
    /\ \A j, k \in Scraping : j # k => threads[j].scraper # threads[k].scraper

\* Two jobs' workers are inside scrape_google at the same time.
C17_Witness ==
    /\ Cardinality(Scraping) = 2
    /\ Len(sessions) = 2

\* The positions of _run_job inside a with-block, after the block's first
\* assignment and before its last.
Mid == {"A", "B", "cb", "C", "F", "D", "G", "E"}

\* The workers inside a with-block.
Updating == {j \in JobIds : threads[j].pc \in Mid}

C18_Inv ==
    /\ \A j \in Updating : lock = WorkerThread(j)
    /\ lock # NoHolder => lock.kind = "worker" /\ lock.id \in Updating
    /\ lock = NoHolder => \A j \in JobIds : jobs[j] = NoJob \/ Whole(jobs[j])
    /\ \A h \in HandlerIds : handlers[h].resp.body # "torn"

C18_Step ==
    jobs' # jobs =>
       \/ lock = NoHolder
       \/ \E j \in Updating :
             /\ lock = WorkerThread(j)
             /\ \A k \in JobIds \ {j} : jobs'[k] = jobs[k]

\* C18: the job map and the fields of a JobState are read and written under
\* the one jobs lock only.  A worker inside one of its with-blocks (the
\* progress callback's included) holds the lock, and it alone; the job map
\* changes only in a step of the thread that takes the free lock or holds it;
\* whenever the lock is free every job is whole, and no status request was
\* ever answered with a job in the middle of a block's updates.
C18_JobsOnlyUnderLock == []C18_Inv /\ [][C18_Step]_vars

\* A worker stands between progress = 100 and status = "done" (the job is not
\* whole), the other job's worker is finished, and a status request has been
\* answered with a job.
C18_Witness ==
    /\ \E j \in Updating :
          /\ threads[j].pc = "G"
          /\ ~Whole(jobs[j])
          /\ \E k \in JobIds \ {j} : threads[k].pc = "finished"
    /\ \E h \in HandlerIds : handlers[h].resp.body = "whole"

\* What start makes of the payload's keywords (the string, trimmed) and of
\* its max_pages (the integer, if it converts to one).
C19_Keywords == Strip(PyStr(Get(payload.keywords, JStr(<<>>))))
C19_Pages == PyInt(Get(payload.max_pages, JInt(DefaultPages)))

C19_Accepts ==
    /\ C19_Keywords # <<>>
    /\ C19_Pages.ok
    /\ C19_Pages.v \in 1..10

\* C19: the start operation validates before the core is invoked.  A job is
\* registered and a worker launched only when the keywords are non-blank after
\* trimming and max_pages, as the integer start converts it to, is in 1..10;
\* any other request is answered with 400, adds no entry to the job map and
\* starts no worker.  The job registered, and the worker's call of the
\* scraper, carry the trimmed keywords and that integer.
C19_StartValidatesFirst ==
    /\ \A h \in HandlerIds :
          /\ handlers[h].resp.code = 400 => ~C19_Accepts
          /\ (handlers[h].pc # "idle" \/ handlers[h].resp.code = 200) => C19_Accepts
          /\ (handlers[h] # IdleHandler /\ ~C19_Accepts) => handlers[h].resp.code = 400
    /\ ~C19_Accepts => \A j \in JobIds : jobs[j] = NoJob /\ threads[j] = NoThread
    /\ \A j \in JobIds :
          /\ threads[j] # NoThread => jobs[j] # NoJob
          /\ jobs[j] # NoJob =>
                /\ jobs[j].keywords = Str(C19_Keywords)
                /\ jobs[j].keywords # ""
                /\ jobs[j].max_pages = C19_Pages.v
                /\ jobs[j].max_pages \in 1..10
          /\ threads[j].scraper # 0 =>
                /\ threads[j].keywords = Str(C19_Keywords)
                /\ threads[j].keywords # ""
                /\ threads[j].max_pages \in 1..10

\* A request for eleven pages was refused.
C19_Witness ==
    /\ payload.max_pages = JInt(11)
    /\ Strip(PyStr(payload.keywords)) # <<>>
    /\ \E h \in HandlerIds :
          handlers[h].resp = Refused(400, "Max pages must be between 1 and 10")
    /\ \A j \in JobIds : jobs[j] = NoJob /\ threads[j] = NoThread

\* What the markup of page i of the given kind is once cleaned: the script
\* and style blocks gone, the tags stripped, the whitespace collapsed, &amp;
\* decoded.
C20_Cleaned(kind, i) == IF kind = "blank" THEN "" ELSE "a&b " \o Digits[i + 1]

\* C20: which extraction a page's contribution comes from.  A page whose text
\* was extracted (the run stands at its callback) contributes its visible text
\* if and only if that text was read and, trimmed, is longer than 100
\* characters; every other page, one with exactly 100 characters included,
\* contributes its cleaned markup, however short (nothing at all if it cleans
\* to nothing).  Pages whose markup cannot be read are left aside.
C20_VisibleTextOrCleanedMarkup ==
    (pc = "callback" /\ page_kind \in PageKinds \ {"dead"}) =>
        LET vis == Strip(VisibleText(page_kind, page_num))
            cleaned == C20_Cleaned(page_kind, page_num)
            add == page_log[page_num].add
        IN  IF ~VisibleRaises(page_kind) /\ vis # <<>> /\ Len(vis) > 100
            THEN add = Str(vis) \o "\n" /\ add # cleaned \o "\n"
            ELSE /\ add \in {cleaned \o "\n"} \cup (IF cleaned = "" THEN {""} ELSE {})
                 /\ vis # <<>> => add # Str(vis) \o "\n"

\* The second page's visible text has exactly 100 characters once trimmed,
\* and the page contributed its cleaned markup.
C20_Witness ==
    /\ pc = "callback"
    /\ page_num = 1
    /\ page_kind = "edge"
    /\ Len(VisibleText("edge", 1)) > 100
    /\ Len(Strip(VisibleText("edge", 1))) = 100
    /\ page_log[1].add = "a&b 1\n"
    /\ page_log[0].add = Str(Strip(VisibleText("long", 0))) \o "\n"

\* C21: extraction errors never propagate.  Whatever the reads of the visible
\* text and of the markup do, the worker goes from the extraction of a page
\* to that page's progress callback with no exception in flight, and a page
\* neither read of which succeeded has added the empty string.
C21_ExtractionNeverPropagates ==
    [][(pc = "extract" /\ pc' # "extract") =>
          /\ pc' = "callback"
          /\ exc' = "none"
          /\ page_log'[page_num].st = "extracted"
          /\ (page_kind' = "dead" => page_log'[page_num].add = "")]_vars

\* C22: the readiness cascade.  When the worker comes to extract a page, the
\* probes tried for it are the first n of container marker, result-item
\* marker, document body, in this order; the probe that succeeded is the last
\* one tried, and if none succeeded all three were tried; the settle delay was
\* taken exactly when the body probe is the one that succeeded.
C22_CascadeInOrder ==
    pc = "extract" =>
        LET n == Len(ready.probes)
        IN  /\ n \in 1..3
            /\ ready.probes = SubSeq(<<"container", "result", "body">>, 1, n)
            /\ ready.via # "none" => ready.via = ready.probes[n]
            /\ ready.via = "none" => n = 3
            /\ ready.settled <=> ready.via = "body"

\* C23: readiness is never fatal.  However the readiness probes of a page
\* end, the worker goes on to extract that same page, with no exception in
\* flight; nothing but the record of the readiness outcome changes.
C23_ReadinessNeverFatal ==
    [][(pc = "readiness" /\ pc' # "readiness") =>
          /\ pc' = "extract"
          /\ exc' = "none"
          /\ page_num' = page_num
          /\ all_text' = all_text
          /\ page_log' = page_log]_vars

\* The indices the inter-page delay was taken after.
Delays == {delay_log[k] : k \in 1..Len(delay_log)}

\* C24 as stated: every index but the last, once the loop is past it, was
\* followed by the inter-page delay whatever happened on its page, and the
\* last index never is.
C24_Original ==
    /\ \A i \in Pages : (i < max_pages - 1 /\ page_num > i) => i \in Delays
    /\ (max_pages - 1) \notin Delays

C24_Inv ==
    /\ \A i \in Pages :
          i \in Delays <=>
             (page_num > i /\ page_log[i].st = "completed" /\ i < max_pages - 1)
    /\ \A k \in 1..Len(delay_log) : k > 1 => delay_log[k - 1] < delay_log[k]

C24_Step ==
    delay_log' # delay_log =>
       /\ pc = "delay"
       /\ delay_log' = Append(delay_log, page_num)
       /\ Len(nav_log) = page_num + 1
       /\ nav_log' = nav_log
       /\ page_num' = page_num + 1

\* C24, amended: the inter-page delay is taken once after every index that is
\* not the last and whose page was handled to its end (extraction and
\* progress callback), before the stop check and the navigation request of
\* the next index; it is not taken after the last index, nor after a page the
\* loop left early (navigation timeout, caught error), whose successor is
\* requested without a delay.
C24_DelayAfterHandledPages == []C24_Inv /\ [][C24_Step]_vars

\* Of three pages the first was handled and followed by the delay, the second
\* timed out in navigation and was not, and the third has been requested.
C24_Witness ==
    /\ max_pages = 3
    /\ delay_log = <<0>>
    /\ page_log[1].st = "nav_timeout"
    /\ Len(nav_log) = 3

\* The positions of the worker in the iteration of page_num that come before
\* the page's progress callback has been made.
BeforeCallback ==
    {"loop_top", "pause_check", "navigate", "render", "readiness", "extract", "callback"}

C25_Inv ==
    /\ \A k \in 1..Len(progress_log) :
          progress_log[k][1] <= (IF pc \in BeforeCallback THEN page_num ELSE page_num + 1)
    /\ (pc = "delay" /\ has_callback) =>
          /\ progress_log # <<>>
          /\ progress_log[Len(progress_log)] = <<page_num + 1, max_pages>>

C25_Step ==
    progress_log' # progress_log =>
       /\ pc = "callback"
       /\ progress_log' = Append(progress_log, <<page_num + 1, max_pages>>)
       /\ page_log[page_num].st = "extracted"
       /\ all_text = AddsFrom(0)
       /\ all_text' = all_text
       /\ page_num \notin Delays
       /\ delay_log' = delay_log
       /\ Len(nav_log) = page_num + 1
       /\ nav_log' = nav_log
       /\ pc' \in {"delay", "loop_top", "close"}

\* C25: the progress callback runs synchronously on the worker.  The event
\* (i+1, max_pages) is delivered by the worker while it handles index i: after
\* the page's extraction is in the accumulator, before the inter-page delay,
\* the next stop and pause checks and the next navigation request; no event is
\* delivered for a page the loop has left or not reached, and the delay of a
\* page follows its event.
C25_CallbackInsideIteration == []C25_Inv /\ [][C25_Step]_vars

\* The second page's event has been delivered and the worker stands before
\* the delay that follows it; the third page has not been requested.
C25_Witness ==
    /\ pc = "delay"
    /\ page_num = 1
    /\ max_pages = 3
    /\ progress_log = <<<<1, 3>>, <<2, 3>>>>
    /\ delay_log = <<0>>
    /\ Len(nav_log) = 2

\* What a control setter must leave alone: the session handles, the
\* accumulated text, and the worker's position and records.
Untouched == <<handles, all_text, pc, page_num, exc, result, nav_log, progress_log, page_log,
               delay_log, close_calls>>

C26_Inv ==
    /\ pause_flag => ~ENABLED <<Pause>>_vars
    /\ ~pause_flag => ~ENABLED <<Resume>>_vars
    /\ stop_flag => ~ENABLED <<Stop>>_vars

C26_Step ==
    /\ pause_flag' # pause_flag => UNCHANGED <<stop_flag, Untouched>>
    /\ stop_flag' # stop_flag => stop_flag' /\ UNCHANGED <<pause_flag, Untouched>>

\* C26: the control setters are independent.  A step that changes the pause
\* flag (pause, resume) leaves the stop flag as it is, a step that changes the
\* stop flag (stop) sets it and leaves the pause flag as it is, and neither
\* touches the session handles, the accumulated text or the worker; a setter
\* called when its flag already has the value it assigns changes nothing.
C26_SettersIndependent == []C26_Inv /\ [][C26_Step]_vars

\* Both flags are set while the worker holds an open session and has text
\* accumulated.
C26_Witness ==
    /\ pause_flag
    /\ stop_flag
    /\ all_text # ""
    /\ handles.browser = "open"
    /\ pc = "pause_check"

\* The marks of a page that an exception ended.
Thrown == {"nav_error", "ready_error", "extract_error", "cb_error"}

\* C27: the two implementations realise one contract.  Whatever rendering
\* runs, each step has on the navigation requests, the progress events, the
\* text and the exception in flight the effect src/scraper.py has on the same
\* outcome: an exception raised for a page (by navigation, readiness,
\* extraction or the callback) is followed by the next index with nothing
\* raised, and the extraction of a page adds what src/scraper.py adds for a
\* page of that kind and goes on to the callback.
C27_SameAsScraperPy ==
    [][/\ (page_log' # page_log /\ page_log'[page_num].st \in Thrown) =>
              /\ exc' = "none"
              /\ pc' = "loop_top"
              /\ page_num' = page_num + 1
       /\ (pc = "extract" /\ pc' # "extract") =>
              LET r == ExtractBlock("selenium", page_kind', page_num)
              IN  /\ pc' = "callback"
                  /\ all_text' = all_text \o r.add]_vars

\* The positions of the loop body below the stop check.
BelowStopCheck == {"pause_check", "navigate", "render", "readiness", "extract", "callback", "delay"}

C28_Inv ==
    stop_flag =>
        /\ Len(nav_log) <= stop_at.page + 1
        /\ stop_at.phase \in {"before", "top"} => Len(nav_log) <= stop_at.page

C28_Step ==
    /\ (stop_flag /\ nav_log' # nav_log) =>
           /\ Len(nav_log') = Len(nav_log) + 1
           /\ Len(nav_log) = stop_at.page
           /\ page_num = stop_at.page
           /\ stop_at.phase \in {"pause", "page"}
    /\ (pc \in BelowStopCheck /\ pc' \in AfterLoop) => exc' # "none"
    /\ (pc = "pause_check" /\ stop_flag /\ pc' # pc) => ~pause_flag /\ pc' = "navigate"
    /\ (pc = "loop_top" /\ stop_flag /\ pc' # pc) => pc' = "close" /\ nav_log' = nav_log

\* C28: once the stop flag is set, the only navigation request still issued is
\* the one of the iteration that had already passed its stop check (the flag
\* was set in its pause loop or while its page was processed), so at most one
\* request follows the flag; the stop check at the top of the next iteration
\* ends the loop, and below that check nothing reads the flag: the pause loop
\* is left only with the pause flag clear and only towards the navigation,
\* and the body is left for the close only by an exception.
C28_OneRequestAfterStop == []C28_Inv /\ [][C28_Step]_vars

\* Stop was set while the worker spun in the pause loop of the second page;
\* after the resume that page was still requested and handled, and no other.
C28_Witness ==
    /\ pc = "done"
    /\ max_pages = 3
    /\ stop_at = [page |-> 1, phase |-> "pause"]
    /\ Len(nav_log) = 2
    /\ page_log[1].st = "completed"
    /\ page_log[2].st = "none"

\* The page index a request was made for (MaxPages for a URL of no index).
IndexOf(u) ==
    IF \E i \in 0..(MaxPages - 1) : u = Url(keywords, i)
    THEN CHOOSE i \in 0..(MaxPages - 1) : u = Url(keywords, i)
    ELSE MaxPages

IsPrefix(s, t) == Len(s) <= Len(t) /\ SubSeq(t, 1, Len(s)) = s

C29_Inv ==
    /\ Len(nav_log) <= max_pages
    /\ \A k \in 1..Len(nav_log) : IndexOf(nav_log[k]) \in Pages
    /\ \A k, l \in 1..Len(nav_log) : k < l => IndexOf(nav_log[k]) < IndexOf(nav_log[l])

C29_Step ==
    /\ nav_log' # nav_log =>
           /\ nav_log' = Append(nav_log, Url(keywords, page_num))
           /\ \A k \in 1..Len(nav_log) : IndexOf(nav_log[k]) < page_num
    /\ page_num' >= page_num
    /\ IsPrefix(all_text, all_text')
    /\ all_text' # all_text =>
           /\ all_text' = all_text \o page_log'[page_num].add
           /\ \A j \in Pages : j # page_num => page_log'[j] = page_log[j]
           /\ page_log[page_num].add = ""

\* C29: a run makes at most max_pages requests, each for a page index of its
\* own and in strictly increasing order of index (the index never goes back,
\* so no page is requested twice); the accumulated text changes only by
\* getting the block of the page in hand appended, the text so far staying a
\* prefix of it and the blocks recorded for the other pages staying as they are.
C29_NoRetryAppendOnly == []C29_Inv /\ [][C29_Step]_vars

\* Three pages requested once each, the second adding nothing, the text being
\* the first block followed by the third.
C29_Witness ==
    /\ pc = "done"
    /\ max_pages = 3
    /\ Len(nav_log) = 3
    /\ page_log[0].add # ""
    /\ page_log[1].st = "nav_timeout"
    /\ page_log[2].add # ""
    /\ result.text = page_log[0].add \o page_log[2].add

\* The run is over: search_and_extract returned or raised, the close done.
Finished ==
    /\ pc = "done"
    /\ result.kind \in {"returned", "raised"}
    /\ close_calls = 1
    /\ handles.browser # "open"
    /\ handles.page # "open"

\* While the flag stays set, a worker in the pause loop stays there with its
\* session as it was, the stop flag set or not.
C30_Step ==
    (pc = "pause_check" /\ pause_flag /\ pause_flag') =>
        /\ pc' = "pause_check"
        /\ close_calls' = close_calls
        /\ handles' = handles
        /\ result' = result

StatusMoves ==
    { <<"absent", "idle">>, <<"idle", "running">>, <<"running", "done">>, <<"running", "error">> }

Terminal == {"done", "error"}

C31_Inv ==
    \A j \in JobIds :
        /\ jobs[j].status \in {"absent", "idle", "running", "done", "error"}
        /\ jobs[j].status = "done" => jobs[j].error = NoError
        /\ jobs[j].error # NoError => jobs[j].status = "error"

C31_Step ==
    \A j \in JobIds :
        /\ jobs'[j].status # jobs[j].status => <<jobs[j].status, jobs'[j].status>> \in StatusMoves
        /\ jobs[j].status \in Terminal =>
              /\ jobs'[j].status = jobs[j].status
              /\ jobs'[j].progress = jobs[j].progress
              /\ jobs'[j].emails_found = jobs[j].emails_found

\* C31: a job's status changes only from idle to running and from running to
\* done or to error (so it is set running once and never leaves done or
\* error); once it is done or error no step changes its status, progress or
\* emails_found; and a job that is done has no error text, an error text being
\* carried by jobs in error only.
C31_StatusMovesForward == []C31_Inv /\ [][C31_Step]_vars

\* One job ended done and the other in error after its emails were stored.
C31_Witness ==
    \E j, k \in JobIds :
        /\ jobs[j].status = "done" /\ jobs[j].progress = 100 /\ threads[j].pc = "finished"
        /\ jobs[k].status = "error" /\ jobs[k].error = "excel failed" /\ threads[k].pc = "finished"
        /\ jobs[k].progress = 75

\* Where _run_job stands once a stage is over and its block left: the text
\* stored, the emails stored.
AfterScraping == {"extract", "F0", "F", "D0"}
AfterExtraction == {"excel", "G0"}

\* What a status request can read (it reads with the lock free).
C32_Inv ==
    \A j \in JobIds :
        /\ jobs[j].progress \in 0..100
        /\ threads[j].pc \in {"scrape", "pages", "cb"} => jobs[j].progress <= 50
        /\ (lock = NoHolder /\ threads[j].pc \in AfterScraping) => jobs[j].progress = 50
        /\ (lock = NoHolder /\ threads[j].pc \in AfterExtraction) => jobs[j].progress = 75
        /\ jobs[j].status = "done" => jobs[j].progress = 100
        /\ jobs[j].progress > 75 => threads[j].pc \in {"G", "finished"}

C32_Step ==
    \A j \in JobIds :
        /\ jobs'[j].progress >= jobs[j].progress
        /\ jobs'[j].status = "error" => jobs'[j].progress = jobs[j].progress

\* C32: a job's progress never decreases and lies in 0..100; a status request
\* reads at most 50 while the job scrapes, 50 once the text is stored, 75 once
\* the emails are stored and 100 only when the spreadsheet was generated; a
\* done job has progress 100, and the step that sets a job to error, like
\* every step after it, leaves the progress where it was.
C32_ProgressMonotone == []C32_Inv /\ [][C32_Step]_vars

\* A status request was answered while a job of two pages had reported its
\* first page (progress 25) and the other job had failed at progress 50.
C32_Witness ==
    \E j, k \in JobIds :
        /\ threads[j].pc = "pages" /\ threads[j].max_pages = 2 /\ jobs[j].progress = 25
        /\ jobs[k].status = "error" /\ jobs[k].progress = 50
        /\ \E h \in HandlerIds : handlers[h].resp.body = "whole"

\* The worker of job j is through, and the job shows how it ended.
Ended(j) == threads[j].pc = "finished" /\ jobs[j].status \in Terminal

C33_Inv ==
    \A j \in JobIds :
        /\ threads[j].pc = "finished" =>
              /\ jobs[j].status \in Terminal
              /\ jobs[j].status = "error" <=> threads[j].exc # NoError
              /\ jobs[j].status = "done" <=> threads[j].exc = NoError
              /\ jobs[j].error = threads[j].exc
        /\ threads[j].exc # NoError => threads[j].pc \in {"E0", "E", "finished"}
        /\ threads[j].pc \in {"E0", "E"} => threads[j].exc # NoError

\* C33: a job whose scrape_google call has returned or raised ends with a
\* terminal status, its worker finished; a finished worker never leaves its
\* job running; the job is in error, with the exception's text as its error,
\* exactly when the scrape, the email extraction or the spreadsheet generation
\* raised, and it is done exactly when none did.
C33_EveryJobEnds ==
    /\ []C33_Inv
    /\ \A j \in JobIds : (threads[j].pc \in {"C0", "E0"}) ~> Ended(j)

\* Both workers are through: one job failed in the scrape, the other is done.
C33_Witness ==
    \E j, k \in JobIds :
        /\ Ended(j) /\ jobs[j].status = "error" /\ jobs[j].error = "scrape failed"
        /\ Ended(k) /\ jobs[k].status = "done" /\ jobs[k].error = NoError

\* The lines are numbered one after the other, the last being number n.
InOrderUpTo(lines, n) == \A k \in 1..Len(lines) : lines[k].a = n - Len(lines) + k

Smaller(a, b) == IF a < b THEN a ELSE b

C34_Inv ==
    LET lines == jobs[LogJob].logs
        n == NextLine(lines) - 1
    IN  /\ Len(lines) = Smaller(n, LogCap)
        /\ InOrderUpTo(lines, n)
        /\ \A h \in HandlerIds :
              handlers[h].resp.body = "whole" =>
                 LET shown == handlers[h].job.logs
                     m == NextLine(shown) - 1
                 IN  /\ Len(shown) = Smaller(m, StatusLogs)
                     /\ InOrderUpTo(shown, m)
                     /\ m <= n

C34_Step ==
    LET lines == jobs[LogJob].logs
    IN  /\ jobs'[LogJob].logs # lines =>
              /\ NextLine(jobs'[LogJob].logs) = NextLine(lines) + 1
              /\ Len(jobs'[LogJob].logs) = Smaller(Len(lines) + 1, LogCap)
        /\ \A h \in HandlerIds :
              (handlers'[h] # handlers[h] /\ handlers'[h].resp.body = "whole") =>
                 /\ handlers'[h].job.logs = LastN(lines, StatusLogs)
                 /\ lines # <<>> => NextLine(handlers'[h].job.logs) = NextLine(lines)

\* C34: with the lines numbered as they are appended, after n appends to a
\* job its log holds the lines n-199..n (all n of them while n <= 200) in the
\* order they came, each append adding its line at the end; and the logs of a
\* status answer are the last 20 lines of the log at the moment of the request
\* (all of them while there are at most 20), in the same order.
C34_LogKeepsLast200 == []C34_Inv /\ [][C34_Step]_vars

\* 204 lines were appended, the log holds lines 5..204, and a status answer
\* given at that point shows lines 185..204.
C34_Witness ==
    /\ Len(jobs[LogJob].logs) = LogCap
    /\ jobs[LogJob].logs[1].a = 5
    /\ jobs[LogJob].logs[LogCap].a = 204
    /\ \E h \in HandlerIds :
          /\ Len(handlers[h].job.logs) = StatusLogs
          /\ handlers[h].job.logs[1].a = 185
          /\ handlers[h].job.logs[StatusLogs].a = 204

\* C35: in a run made through scrape_google the pause and stop flags are false
\* throughout, and a run whose session opened leaves the loop only with a
\* navigation request made for every index 0..max_pages-1.
C35_GoogleRunAttemptsAll ==
    /\ ~pause_flag
    /\ ~stop_flag
    /\ stop_at = NoStop
    /\ (pc \in AfterLoop /\ exc # "setup") =>
          /\ Len(nav_log) = max_pages
          /\ \A i \in Pages : nav_log[i + 1] = Url(keywords, i)

\* The fields of a job that start() sets and nothing changes afterwards.
Given(job) == <<job.keywords, job.max_pages, job.exclude_free_emails>>

C36_Step ==
    /\ \A j \in JobIds :
          /\ threads'[j] # threads[j] => \A k \in JobIds \ {j} : jobs'[k] = jobs[k]
          /\ (jobs'[j] # jobs[j] /\ jobs[j] # NoJob) =>
                /\ threads[j].pc # "finished"
                /\ threads'[j].pc # "none"
                /\ \A k \in JobIds \ {j} : jobs'[k] = jobs[k] /\ threads'[k] = threads[k]
          /\ jobs[j] # NoJob => jobs'[j] # NoJob /\ Given(jobs'[j]) = Given(jobs[j])
    /\ \A h \in HandlerIds :
          (handlers'[h] # handlers[h] /\ handlers[h].pc = "idle" /\ handlers'[h].pc = "idle") =>
              jobs' = jobs /\ threads' = threads

\* C36: a step of a job's worker, its progress callback included, leaves
\* every other job as it is; a job once in the map changes only in steps of
\* its own worker, which change no other job and no other worker; a request
\* that is answered at once (status, download, a refused start) changes no
\* job; and a job in the map stays in it, with the keywords, the number of
\* pages and the filter flag it was registered with.
C36_JobsIsolated == [][C36_Step]_vars

\* One job's worker is inside its progress callback while the other job is
\* done, and a download has been served.
C36_Witness ==
    \E j, k \in JobIds :
        /\ j # k
        /\ threads[j].pc = "cb"
        /\ jobs[k].status = "done"
        /\ \E h \in HandlerIds : handlers[h].resp.body = "file"

\* Handler h has just answered a download request (for job handlers'[h].job_id).
Downloaded(h) ==
    /\ handlers'[h] # handlers[h]
    /\ handlers'[h].pc = "idle"
    /\ handlers'[h].job_id \in JobIds

C37_Step ==
    \A h \in HandlerIds :
        Downloaded(h) =>
            LET id == handlers'[h].job_id
                r == handlers'[h].resp
                known == jobs[id] # NoJob
                some == jobs[id].emails_found # <<>>
            IN  /\ r.body = "file" <=> (known /\ some)
                /\ r.code = 200 <=> r.body = "file"
                /\ r.code = 404 <=> ~known
                /\ r.code = 400 <=> (known /\ ~some)
                /\ r.code = 400 => r.detail = "No emails available"
                /\ jobs' = jobs

\* Emails are in a job from the block that stores them on, whatever its status.
C37_Inv ==
    \A j \in JobIds :
        jobs[j].emails_found # <<>> =>
            /\ jobs[j].status \in {"running", "done", "error"}
            /\ threads[j].pc \in {"D", "excel", "G0", "G", "E0", "E", "finished"}

\* C37: a download request for id J is answered with the file exactly when J
\* is in the job map with a non-empty emails_found as the request reads it,
\* with 404 exactly when J is not in the map and with 400 exactly when J is
\* there with an empty list; the job's status plays no part, and the request
\* changes no job.
C37_DownloadIffEmails == []C37_Inv /\ [][C37_Step]_vars

\* A download was served for a job that is still running: its emails are
\* stored and the spreadsheet step of its worker has not run yet.
C37_Witness ==
    \E h \in HandlerIds :
        /\ handlers[h].resp.body = "file"
        /\ handlers[h].job_id \in JobIds
        /\ jobs[handlers[h].job_id].status = "running"
        /\ threads[handlers[h].job_id].pc = "excel"
        /\ jobs[handlers[h].job_id].progress = 75

\* C38: the list of addresses a job publishes is in ascending order, holds no
\* address twice and no upper-case letter and, if the job was started with
\* exclude_free_emails, no address that ends in "@" and one of the eight free
\* domains; and filter_emails with nothing to exclude gives back the set it
\* was given.
C38_EmailsSortedUniqueLower ==
    \A j \in JobIds :
        LET es == jobs[j].emails_found
            found == extract_emails(jobs[j].scraped_text)
        IN  /\ \A i, k \in 1..Len(es) : i < k => Before(es[i], es[k]) /\ es[i] # es[k]
            /\ \A i \in 1..Len(es) : \A k \in 1..Len(es[i]) :
                  \A n \in 1..26 : es[i][k] # Alphabet.upper[n]
            /\ jobs[j].exclude_free_emails =>
                  \A i \in 1..Len(es) : \A d \in FreeDomains :
                      \/ Len(es[i]) < Len(d) + 1
                      \/ SubSeq(es[i], Len(es[i]) - Len(d), Len(es[i])) # <<"@">> \o d
            /\ filter_emails(found, <<>>) = found

\* A finished job that was asked to leave free addresses out and whose text
\* held the same free address in two spellings next to another one: it has
\* published the other one alone.
C38_Witness ==
    \E j \in JobIds :
        LET matches == FindAll(jobs[j].scraped_text, 1)
        IN  /\ jobs[j].status = "done"
            /\ jobs[j].exclude_free_emails
            /\ Len(matches) = 3
            /\ Cardinality(extract_emails(jobs[j].scraped_text)) = 2
            /\ Len(jobs[j].emails_found) = 1

====
